---- MODULE Spec2Model ----
(***************************************************************************)
(* go-llm-proxy: the Ollama-facing translation and routing layer.          *)
(*                                                                         *)
(* The module holds three specifications over one set of variables:        *)
(*   SpecTokens  the token budgeter (EstimateTokens, EstimateChatTokens,   *)
(*               CalculateMaxTokensForRequest, ValidateTokenLimits)        *)
(*   SpecFilter  ModelFetcher.matchesFilters over filepath.Match globs     *)
(*   Spec        the request handlers, the backend registry, the adapters  *)
(*               and the streaming emitter                                 *)
(*                                                                         *)
(* Texts of a request (prompt, message content, role) are observed by the  *)
(* code only through len() and strings.TrimSpace, so such a text is the    *)
(* record [lead, core, trail]: the bytes of leading white space, of the    *)
(* part between the first and the last non-space byte, and of trailing     *)
(* white space.  A response text is a sequence of bytes, since the emitter *)
(* slices it by byte index.                                                *)
(***************************************************************************)
EXTENDS Integers, Sequences, FiniteSets, TLC

VARIABLES models, backends, req, resp, calls, result, tok, flt, admin, boot,
          config, threads

vars == <<models, backends, req, resp, calls, result, tok, flt, admin, boot,
          config, threads>>

\* the variables of the server
serverVars == <<models, backends, req, resp, calls, result>>

----------------------------------------------------------------------------
\* Bounds of the model

MaxMsgs == 2
MaxPad == 1

----------------------------------------------------------------------------
\* Program constants of the token budgeter

CharsPerToken == 4
MessageOverhead == 4
RequestOverhead == 10
BufferTokens == 100
MinOutputTokens == 100
MaxOutputTokens == 4000
SmallContextLimit == 8192

----------------------------------------------------------------------------
\* Request texts

MkText(lead, core, trail) == [lead |-> lead, core |-> core, trail |-> trail]

EmptyText == MkText(0, 0, 0)

\* len(text): the number of bytes
ByteLen(t) == t.lead + t.core + t.trail

\* strings.TrimSpace: drops the leading and the trailing white space
TrimSpace(t) == MkText(0, t.core, 0)

\* The role strings the requests use, as texts: len("user") = 4, ...
RoleText(r) ==
    CASE r = "user" -> MkText(0, 4, 0)
      [] r = "assistant" -> MkText(0, 9, 0)
      [] r = "system" -> MkText(0, 6, 0)
      [] OTHER -> EmptyText

\* Go's integer quotient truncates toward zero
Quot(a, b) == IF a >= 0 THEN a \div b ELSE -((-a) \div b)

EstimateTokens_NoRounding(t) ==
    IF ByteLen(t) = 0 THEN 0 ELSE Quot(ByteLen(TrimSpace(t)), CharsPerToken)

EstimateTokens(t) ==
    IF ByteLen(t) = 0 THEN 0 ELSE Quot(ByteLen(TrimSpace(t)) + 3, CharsPerToken)

RECURSIVE SumMessageTokens(_)
SumMessageTokens(messages) ==
    IF messages = <<>> THEN 0
    ELSE SumMessageTokens(SubSeq(messages, 1, Len(messages) - 1))
         + EstimateTokens(RoleText(messages[Len(messages)].role))
         + EstimateTokens(messages[Len(messages)].content)
         + MessageOverhead

EstimateChatTokens(messages) == SumMessageTokens(messages) + RequestOverhead

CalculateMaxTokensForRequest_NoFloor(modelConfig, messages) ==
    LET availableForOutput ==
            modelConfig.MaxTokens - EstimateChatTokens(messages) - BufferTokens
    IN  IF availableForOutput > MaxOutputTokens THEN MaxOutputTokens
        ELSE availableForOutput

CalculateMaxTokensForRequest(modelConfig, messages) ==
    LET estimatedInputTokens == EstimateChatTokens(messages)
        availableForOutput ==
            modelConfig.MaxTokens - estimatedInputTokens - BufferTokens
        floored == IF availableForOutput < MinOutputTokens
                   THEN MinOutputTokens ELSE availableForOutput
    IN  IF floored > MaxOutputTokens THEN MaxOutputTokens ELSE floored

MaxInputTokens_NoReserve(contextWindow) == contextWindow

\* int(float64(n) * 0.75) and int(float64(n) * 0.5): both factors are exact
\* in binary, the conversion truncates toward zero
MaxInputTokens(contextWindow) ==
    IF contextWindow <= SmallContextLimit
    THEN Quot(3 * contextWindow, 4)
    ELSE Quot(contextWindow, 2)

\* ValidateTokenLimits: "ok", or the request-too-long error
ValidateTokenLimits_Strict(modelConfig, messages) ==
    IF EstimateChatTokens(messages) >= MaxInputTokens(modelConfig.MaxTokens)
    THEN [ok |-> FALSE, kind |-> "request too long",
          estimated |-> EstimateChatTokens(messages),
          limit |-> modelConfig.MaxTokens,
          maxInput |-> MaxInputTokens(modelConfig.MaxTokens)]
    ELSE [ok |-> TRUE, kind |-> "", estimated |-> 0, limit |-> 0, maxInput |-> 0]

ValidateTokenLimits(modelConfig, messages) ==
    IF EstimateChatTokens(messages) > MaxInputTokens(modelConfig.MaxTokens)
    THEN [ok |-> FALSE, kind |-> "request too long",
          estimated |-> EstimateChatTokens(messages),
          limit |-> modelConfig.MaxTokens,
          maxInput |-> MaxInputTokens(modelConfig.MaxTokens)]
    ELSE [ok |-> TRUE, kind |-> "", estimated |-> 0, limit |-> 0, maxInput |-> 0]

----------------------------------------------------------------------------
\* Inputs of the token budgeter

Roles == {"user", "assistant", "system"}

\* core lengths around the rounding steps, and the two contents that bring a
\* one-message request to an estimate of 6144 and of 6145 tokens
CoreLens == {0, 1, 3, 4, 5, 8, 9, 24516, 24517}

TokenTexts ==
    {MkText(l, c, t) : l \in 0..MaxPad, c \in CoreLens, t \in 0..MaxPad}

MsgPool ==
    { [role |-> "user", content |-> MkText(0, 2, 0)],
      [role |-> "assistant", content |-> MkText(1, 5, 1)],
      [role |-> "system", content |-> MkText(1, 0, 0)],
      [role |-> "user", content |-> MkText(0, 24516, 0)],
      [role |-> "user", content |-> MkText(0, 24517, 0)],
      [role |-> "user", content |-> MkText(0, 1128, 0)],
      [role |-> "user", content |-> MkText(0, 1140, 0)] }

SeqsUpTo(S, n) == UNION {[1..k -> S] : k \in 0..n}

MsgLists == SeqsUpTo(MsgPool, MaxMsgs)

\* context windows: degenerate ones, small ones around the 75% rounding,
\* the two around which a quarter of the window reaches the floor of 100,
\* the 8192 limit, and large ones around the 50% rounding
ContextWindows ==
    {-5, 0, 20, 21, 22, 150, 396, 397, 4096, 8192, 8193, 24555, 24557, 200000}

ModelOfWindow(w) ==
    [Name |-> "m", Backend |-> "openai", BackendModel |-> "m",
     MaxTokens |-> w, Enabled |-> TRUE]

\* One call of the token budgeter: the operation and its arguments, then
\* its result.
NoTok == [op |-> "none", text |-> EmptyText, messages |-> <<>>, ctx |-> 0,
          done |-> FALSE, result |-> 0, err |-> ""]

TokenCalls ==
    {[NoTok EXCEPT !.op = "EstimateTokens", !.text = t] : t \in TokenTexts}
    \cup {[NoTok EXCEPT !.op = "EstimateChatTokens", !.messages = ms] :
             ms \in MsgLists}
    \cup {[NoTok EXCEPT !.op = o, !.messages = ms, !.ctx = w] :
             o \in {"CalculateMaxTokensForRequest", "ValidateTokenLimits"},
             ms \in MsgLists, w \in ContextWindows}

CallEstimateTokens ==
    /\ tok.op = "EstimateTokens" /\ ~tok.done
    /\ tok' = [tok EXCEPT !.done = TRUE, !.result = EstimateTokens(tok.text)]
    /\ UNCHANGED <<serverVars, flt, admin, boot, config, threads>>

CallEstimateChatTokens ==
    /\ tok.op = "EstimateChatTokens" /\ ~tok.done
    /\ tok' = [tok EXCEPT !.done = TRUE,
                          !.result = EstimateChatTokens(tok.messages)]
    /\ UNCHANGED <<serverVars, flt, admin, boot, config, threads>>

CallCalculateMaxTokensForRequest ==
    /\ tok.op = "CalculateMaxTokensForRequest" /\ ~tok.done
    /\ tok' = [tok EXCEPT !.done = TRUE,
                          !.result = CalculateMaxTokensForRequest(
                                         ModelOfWindow(tok.ctx), tok.messages)]
    /\ UNCHANGED <<serverVars, flt, admin, boot, config, threads>>

CallValidateTokenLimits ==
    /\ tok.op = "ValidateTokenLimits" /\ ~tok.done
    /\ LET v == ValidateTokenLimits(ModelOfWindow(tok.ctx), tok.messages)
       IN  tok' = [tok EXCEPT !.done = TRUE, !.result = v.maxInput,
                              !.err = v.kind]
    /\ UNCHANGED <<serverVars, flt, admin, boot, config, threads>>

\* no request handled yet, nothing written, no adapter result
NoConfig == [Name |-> "", Backend |-> "", BackendModel |-> "", MaxTokens |-> 0,
             Enabled |-> FALSE]
NoGeneric == [type |-> "none", Model |-> "", Messages |-> <<>>,
              Prompt |-> EmptyText, MaxTokens |-> 0]
NoReq == [endpoint |-> "none", malformed |-> FALSE, model |-> "",
          stream |-> FALSE, messages |-> <<>>, prompt |-> EmptyText,
          config |-> NoConfig, generic |-> NoGeneric]
NoResp == [status |-> 0, ctype |-> "", body |-> [kind |-> "none"],
           lines |-> <<>>, panic |-> FALSE]
NoResult == [reached |-> FALSE, request |-> NoGeneric, panic |-> FALSE,
             err |-> <<>>,
             value |-> [shape |-> "nil", isNil |-> TRUE]]
NoFlt == [op |-> "none"]
\* no catalog operation made, no start-up under way
NoRead == [op |-> "none", arg |-> "", exists |-> FALSE, out |-> {}]
NoAdmin == [op |-> "none", name |-> "", entry |-> NoConfig, before |-> <<>>,
            read |-> NoRead]
NoBoot == [pc |-> "none"]
NoThreads == [toggle |-> [op |-> "none", pc |-> "done"],
              mutate |-> [op |-> "none", pc |-> "done"]]

\* Configuration from the environment.  The value of a variable is a sequence
\* of characters; Unset is the empty value os.Getenv gives for a variable
\* that is not set.
Unset == <<>>

DigitValue(ch) ==
    CASE ch = "0" -> 0 [] ch = "1" -> 1 [] ch = "2" -> 2 [] ch = "3" -> 3
      [] ch = "4" -> 4 [] ch = "5" -> 5 [] ch = "6" -> 6 [] ch = "7" -> 7
      [] ch = "8" -> 8 [] ch = "9" -> 9 [] OTHER -> -1

\* strconv.Atoi of an unsigned decimal: the value, or an error
RECURSIVE Atoi(_)
Atoi(str) ==
    IF str = <<>> THEN [ok |-> FALSE, value |-> 0]
    ELSE IF DigitValue(str[Len(str)]) < 0 THEN [ok |-> FALSE, value |-> 0]
    ELSE IF Len(str) = 1 THEN [ok |-> TRUE, value |-> DigitValue(str[1])]
    ELSE LET front == Atoi(SubSeq(str, 1, Len(str) - 1))
         IN  [ok |-> front.ok,
              value |-> 10 * front.value + DigitValue(str[Len(str)])]

\* GetEnvInt
GetEnvInt(value, defaultValue) ==
    IF value # <<>> /\ Atoi(value).ok THEN Atoi(value).value ELSE defaultValue

\* LoadConfig: the streaming chunk size, from STREAMING_CHUNK_SIZE
LoadConfig(streamingChunkSize) ==
    [StreamingChunkSize |-> GetEnvInt(streamingChunkSize, 3)]

InitTokens ==
    /\ models = <<>>
    /\ backends = <<>>
    /\ req = NoReq
    /\ resp = NoResp
    /\ calls = <<>>
    /\ result = NoResult
    /\ tok \in TokenCalls
    /\ flt = NoFlt
    /\ admin = NoAdmin
    /\ boot = NoBoot
    /\ config = LoadConfig(Unset)
    /\ threads = NoThreads

NextTokens ==
    \/ CallEstimateTokens
    \/ CallEstimateChatTokens
    \/ CallCalculateMaxTokensForRequest
    \/ CallValidateTokenLimits

SpecTokens == InitTokens /\ [][NextTokens]_vars

----------------------------------------------------------------------------
\* Properties of the token budgeter

Min(a, b) == IF a <= b THEN a ELSE b
Max(a, b) == IF a >= b THEN a ELSE b

\* the per-message terms of a message list, first message first
RECURSIVE MessageTerms(_)
MessageTerms(ms) ==
    IF ms = <<>> THEN 0
    ELSE EstimateTokens(RoleText(Head(ms).role))
         + EstimateTokens(Head(ms).content) + 4 + MessageTerms(Tail(ms))

\* C4: CalculateMaxTokensForRequest(model, messages) is
\* min(4000, max(100, contextWindow - EstimateChatTokens(messages) - 100)),
\* so it lies in [100, 4000] also when the window is below 100, and for a
\* fixed model a message list with a larger estimate never gets a larger
\* budget.
C4_BudgetClamped ==
    (tok.op = "CalculateMaxTokensForRequest" /\ tok.done) =>
        /\ tok.result =
               Min(4000, Max(100, tok.ctx - EstimateChatTokens(tok.messages) - 100))
        /\ tok.result >= 100
        /\ tok.result <= 4000
        /\ \A ms \in MsgLists :
               EstimateChatTokens(ms) >= EstimateChatTokens(tok.messages) =>
                   CalculateMaxTokensForRequest(ModelOfWindow(tok.ctx), ms)
                       <= tok.result

\* C4 witness: a window below 100, where the floor of 100 wins
C4_Witness ==
    /\ tok.op = "CalculateMaxTokensForRequest" /\ tok.done
    /\ tok.ctx = 20
    /\ tok.messages # <<>>
    /\ tok.result = 100

\* C5: ValidateTokenLimits passes exactly when the estimate is at most
\* floor(0.75 * contextWindow) (window <= 8192) or floor(0.5 * contextWindow)
\* (window > 8192); an integer e is at most floor(x) exactly when e <= x.
\* With a window of 8192, 6144 passes and 6145 fails as request too long.
C5_ValidationBoundary ==
    (tok.op = "ValidateTokenLimits" /\ tok.done) =>
        LET e == EstimateChatTokens(tok.messages)
            passes == tok.err = ""
        IN  /\ tok.ctx <= 8192 => (passes <=> 4 * e <= 3 * tok.ctx)
            /\ tok.ctx > 8192 => (passes <=> 2 * e <= tok.ctx)
            /\ (tok.ctx = 8192 /\ e = 6144) => passes
            /\ (tok.ctx = 8192 /\ e = 6145) => tok.err = "request too long"

\* C5 witness: window 8192 and an estimate of 6145, rejected
C5_Witness ==
    /\ tok.op = "ValidateTokenLimits" /\ tok.done
    /\ tok.ctx = 8192
    /\ EstimateChatTokens(tok.messages) = 6145
    /\ tok.err = "request too long"

\* C7: EstimateTokens(text) is the trimmed byte length divided by 4 and
\* rounded up, 0 for empty and white-space-only text; EstimateChatTokens is
\* 10 plus, per message, the estimates of role and content plus 4, so the
\* empty list estimates to 10.
C7_EstimateFormula ==
    /\ (tok.op = "EstimateTokens" /\ tok.done) =>
           /\ 4 * tok.result >= tok.text.core
           /\ 4 * (tok.result - 1) < tok.text.core
           /\ tok.text.core = 0 => tok.result = 0
    /\ (tok.op = "EstimateChatTokens" /\ tok.done) =>
           /\ tok.result = 10 + MessageTerms(tok.messages)
           /\ tok.messages = <<>> => tok.result = 10

\* C7 witness: a padded text whose trimmed length is not a multiple of 4
C7_Witness ==
    /\ tok.op = "EstimateTokens" /\ tok.done
    /\ tok.text = MkText(1, 5, 1)
    /\ tok.result = 2

----------------------------------------------------------------------------
\* path/filepath.Match, as ModelFetcher.matchesFilters calls it.  A string is
\* the sequence of its characters.

Separator == "/"

\* the characters of the ids and patterns, in code-point order
CodePoints ==
    <<"*", "-", ".", "/", "0", "1", "2", "3", "4", "5", "6", "7", "8", "9",
      ":", "?", "[", "\\", "]", "^", "a", "b", "c", "d", "e", "f", "g", "h",
      "i", "j", "k", "l", "m", "n", "o", "p", "q", "r", "s", "t", "u", "v",
      "w", "x", "y", "z">>

Ord(c) == CHOOSE i \in 1..Len(CodePoints) : CodePoints[i] = c

Drop(s, n) == SubSeq(s, n + 1, Len(s))

Contains(s, c) == \E i \in 1..Len(s) : s[i] = c

BadPattern == [err |-> TRUE, r |-> "", chunk |-> <<>>, match |-> FALSE,
               rest |-> <<>>, ok |-> FALSE]

\* getEsc: the next character of a class, with its escape
GetEsc(chunk) ==
    IF chunk = <<>> THEN BadPattern
    ELSE IF chunk[1] = "-" \/ chunk[1] = "]" THEN BadPattern
    ELSE LET c1 == IF chunk[1] = "\\" THEN Tail(chunk) ELSE chunk
         IN  IF c1 = <<>> THEN BadPattern
             ELSE [BadPattern EXCEPT !.err = (Tail(c1) = <<>>), !.r = c1[1],
                                     !.chunk = Tail(c1)]

\* r = "" is the zero rune of a match that has already failed
InRange(lo, r, hi) == r # "" /\ Ord(lo) <= Ord(r) /\ Ord(r) <= Ord(hi)

\* the range loop of a character class
RECURSIVE ParseRanges(_, _, _, _)
ParseRanges(chunk, r, match, nrange) ==
    IF chunk # <<>> /\ nrange > 0 /\ Head(chunk) = "]"
    THEN [BadPattern EXCEPT !.err = FALSE, !.chunk = Tail(chunk),
                            !.match = match]
    ELSE LET lo == GetEsc(chunk)
         IN  IF lo.err THEN BadPattern
             ELSE IF lo.chunk[1] = "-"
             THEN LET hi == GetEsc(Tail(lo.chunk))
                  IN  IF hi.err THEN BadPattern
                      ELSE ParseRanges(hi.chunk, r,
                                       match \/ InRange(lo.r, r, hi.r),
                                       nrange + 1)
             ELSE ParseRanges(lo.chunk, r, match \/ InRange(lo.r, r, lo.r),
                              nrange + 1)

\* matchChunk: after the match has failed the loop goes on over the chunk
\* to check that it is well formed, without reading s
RECURSIVE MatchChunkFrom(_, _, _)
MatchChunkFrom(chunk, s, wasFailed) ==
    IF chunk = <<>>
    THEN IF wasFailed THEN [BadPattern EXCEPT !.err = FALSE]
         ELSE [BadPattern EXCEPT !.err = FALSE, !.ok = TRUE, !.rest = s]
    ELSE LET failed == wasFailed \/ s = <<>>
             s1 == IF failed THEN s ELSE Tail(s)
         IN  CASE chunk[1] = "[" ->
                    LET r == IF failed THEN "" ELSE s[1]
                        c1 == Tail(chunk)
                        negated == c1 # <<>> /\ Head(c1) = "^"
                        c2 == IF negated THEN Tail(c1) ELSE c1
                        pr == ParseRanges(c2, r, FALSE, 0)
                    IN  IF pr.err THEN BadPattern
                        ELSE MatchChunkFrom(pr.chunk, s1,
                                            failed \/ (pr.match = negated))
               [] chunk[1] = "?" ->
                    MatchChunkFrom(Tail(chunk), s1,
                                   IF failed THEN TRUE ELSE s[1] = Separator)
               [] chunk[1] = "\\" ->
                    IF Tail(chunk) = <<>> THEN BadPattern
                    ELSE MatchChunkFrom(Tail(Tail(chunk)), s1,
                                        IF failed THEN TRUE
                                        ELSE chunk[2] # s[1])
               [] OTHER ->
                    MatchChunkFrom(Tail(chunk), s1,
                                   IF failed THEN TRUE ELSE chunk[1] # s[1])

MatchChunk(chunk, s) == MatchChunkFrom(chunk, s, FALSE)

RECURSIVE LeadingStars(_)
LeadingStars(pattern) ==
    IF pattern # <<>> /\ Head(pattern) = "*"
    THEN 1 + LeadingStars(Tail(pattern)) ELSE 0

\* the scan loop of scanChunk: the length of the chunk that starts p
RECURSIVE ScanEnd(_, _, _)
ScanEnd(p, i, inrange) ==
    IF i > Len(p) THEN Len(p)
    ELSE CASE p[i] = "\\" -> ScanEnd(p, IF i < Len(p) THEN i + 2 ELSE i + 1,
                                     inrange)
           [] p[i] = "[" -> ScanEnd(p, i + 1, TRUE)
           [] p[i] = "]" -> ScanEnd(p, i + 1, FALSE)
           [] p[i] = "*" -> IF inrange THEN ScanEnd(p, i + 1, inrange)
                            ELSE i - 1
           [] OTHER -> ScanEnd(p, i + 1, inrange)

ScanChunk(pattern) ==
    LET stars == LeadingStars(pattern)
        p == Drop(pattern, stars)
        n == ScanEnd(p, 1, FALSE)
    IN  [star |-> stars > 0, chunk |-> SubSeq(p, 1, n), rest |-> Drop(p, n)]

NoMatch == [matched |-> FALSE, err |-> FALSE]

RECURSIVE Match(_, _)
RECURSIVE StarLoop(_, _, _, _)

\* the loop of Match that skips i+1 bytes of name after a star
StarLoop(chunk, rest, name, i) ==
    IF ~(i < Len(name)) THEN NoMatch
    ELSE IF name[i + 1] = Separator THEN NoMatch
    ELSE LET m == MatchChunk(chunk, Drop(name, i + 1))
         IN  IF m.ok
             THEN IF rest = <<>> /\ m.rest # <<>>
                  THEN StarLoop(chunk, rest, name, i + 1)
                  ELSE Match(rest, m.rest)
             ELSE IF m.err THEN [matched |-> FALSE, err |-> TRUE]
             ELSE StarLoop(chunk, rest, name, i + 1)

Match(pattern, name) ==
    IF pattern = <<>> THEN [matched |-> name = <<>>, err |-> FALSE]
    ELSE LET sc == ScanChunk(pattern)
         IN  IF sc.star /\ sc.chunk = <<>>
             THEN [matched |-> ~Contains(name, Separator), err |-> FALSE]
             ELSE LET m == MatchChunk(sc.chunk, name)
                  IN  IF m.ok /\ (m.rest = <<>> \/ sc.rest # <<>>)
                      THEN Match(sc.rest, m.rest)
                      ELSE IF m.err THEN [matched |-> FALSE, err |-> TRUE]
                      ELSE IF sc.star
                      THEN StarLoop(sc.chunk, sc.rest, name, 0)
                      ELSE NoMatch

\* the error of filepath.Match is dropped: matched, _ := filepath.Match(...)
AnyMatch(patterns, modelID) ==
    \E i \in 1..Len(patterns) : Match(patterns[i], modelID).matched

matchesFilters_IncludeFirst(modelID, filter) ==
    IF Len(filter.IncludePatterns) = 0
    THEN ~AnyMatch(filter.ExcludePatterns, modelID)
    ELSE AnyMatch(filter.IncludePatterns, modelID)

matchesFilters(modelID, filter) ==
    IF AnyMatch(filter.ExcludePatterns, modelID) THEN FALSE
    ELSE IF Len(filter.IncludePatterns) = 0 THEN TRUE
    ELSE AnyMatch(filter.IncludePatterns, modelID)

----------------------------------------------------------------------------
\* Inputs of the filter

MaxPatterns == 2

Id_claude35sonnet == <<"c", "l", "a", "u", "d", "e", "-", "3", "-", "5", "-", "s", "o", "n", "n", "e", "t", "-", "2", "0", "2", "4", "1", "0", "2", "2">>
Id_claude3opus == <<"c", "l", "a", "u", "d", "e", "-", "3", "-", "o", "p", "u", "s">>
Id_gpt4o == <<"g", "p", "t", "-", "4", "o">>
Id_gpt4omini == <<"g", "p", "t", "-", "4", "o", "-", "m", "i", "n", "i">>
Id_finetune == <<"f", "t", ":", "g", "p", "t", "-", "4", "o", "/", "x">>

ModelIDs ==
    {Id_claude35sonnet, Id_claude3opus, Id_gpt4o, Id_gpt4omini, Id_finetune}

Pat_claude == <<"c", "l", "a", "u", "d", "e", "-", "*">>
Pat_claude35 == <<"c", "l", "a", "u", "d", "e", "-", "3", "-", "5", "-", "*">>
Pat_gpt4x == <<"g", "p", "t", "-", "4", "?">>
Pat_notDated == <<"*", "-", "[", "^", "0", "-", "9", "]", "*">>
Pat_unclosed == <<"g", "p", "t", "-", "[">>

PatternPool ==
    {Pat_claude, Pat_claude35, Pat_gpt4x, Pat_notDated, Pat_unclosed}

PatternLists == SeqsUpTo(PatternPool, MaxPatterns)

FilterCalls ==
    {[op |-> "matchesFilters", modelID |-> id, done |-> FALSE,
      result |-> FALSE,
      filter |-> [Enabled |-> TRUE, IncludePatterns |-> inc,
                  ExcludePatterns |-> exc]] :
         id \in ModelIDs, inc \in PatternLists, exc \in PatternLists}

CallMatchesFilters ==
    /\ flt.op = "matchesFilters" /\ ~flt.done
    /\ flt' = [flt EXCEPT !.done = TRUE,
                          !.result = matchesFilters(flt.modelID, flt.filter)]
    /\ UNCHANGED <<serverVars, tok, admin, boot, config, threads>>

InitFilter ==
    /\ models = <<>>
    /\ backends = <<>>
    /\ req = NoReq
    /\ resp = NoResp
    /\ calls = <<>>
    /\ result = NoResult
    /\ tok = NoTok
    /\ flt \in FilterCalls
    /\ admin = NoAdmin
    /\ boot = NoBoot
    /\ config = LoadConfig(Unset)
    /\ threads = NoThreads

NextFilter == CallMatchesFilters

SpecFilter == InitFilter /\ [][NextFilter]_vars

\* C8: matchesFilters is false whenever the id matches an exclude pattern,
\* whatever the include patterns; otherwise it is true exactly when there is
\* no include pattern or the id matches one.  With exclude claude-3-5-* and
\* include claude-*, claude-3-5-sonnet-20241022 is rejected.
C8_ExcludeWins ==
    flt.done =>
        LET f == flt.filter
            excluded == \E i \in 1..Len(f.ExcludePatterns) :
                            Match(f.ExcludePatterns[i], flt.modelID).matched
            included == \E i \in 1..Len(f.IncludePatterns) :
                            Match(f.IncludePatterns[i], flt.modelID).matched
        IN  /\ excluded => ~flt.result
            /\ ~excluded => (flt.result <=> (f.IncludePatterns = <<>> \/ included))
            /\ (/\ flt.modelID = Id_claude35sonnet
                /\ f.ExcludePatterns = <<Pat_claude35>>
                /\ f.IncludePatterns = <<Pat_claude>>) => ~flt.result

\* C8 witness: the id matches the include pattern claude-* and the exclude
\* pattern claude-3-5-*, and is rejected
C8_Witness ==
    /\ flt.done
    /\ flt.modelID = Id_claude35sonnet
    /\ flt.filter.ExcludePatterns = <<Pat_claude35>>
    /\ flt.filter.IncludePatterns = <<Pat_claude>>
    /\ Match(Pat_claude, flt.modelID).matched
    /\ Match(Pat_claude35, flt.modelID).matched
    /\ ~flt.result

----------------------------------------------------------------------------
\* Backend adapters and the backend registry

BackendAnthropic == "anthropic"
BackendOpenAI == "openai"

Providers == {BackendAnthropic, BackendOpenAI}

\* NewAnthropicBackend(apiKey) / NewOpenAIBackend(apiKey): the adapter keeps
\* the key; hasKey is apiKey != ""
NewBackend(provider, hasKey) == [name |-> provider, hasKey |-> hasKey]

IsAvailable(handler) == handler.hasKey

CreateBackends_RegisterAll(anthropicHasKey, openaiHasKey) ==
    [p \in Providers |->
        NewBackend(p, IF p = BackendAnthropic THEN anthropicHasKey
                      ELSE openaiHasKey)]

\* CreateBackends: an adapter is registered for each non-empty key
CreateBackends(anthropicHasKey, openaiHasKey) ==
    [p \in {q \in Providers :
               \/ (q = BackendAnthropic /\ anthropicHasKey)
               \/ (q = BackendOpenAI /\ openaiHasKey)}
        |-> NewBackend(p, TRUE)]

\* RegisterBackend: bm.backends[backendType] = handler
RegisterBackendIn(bs, backendType, handler) ==
    [p \in DOMAIN bs \cup {backendType} |->
        IF p = backendType THEN handler ELSE bs[p]]

\* GetAvailableBackends
GetAvailableBackends(bs) == {p \in DOMAIN bs : IsAvailable(bs[p])}

NewerModels == {"gpt-4o", "gpt-4o-mini", "gpt-5", "gpt-4.1", "gpt-4.5"}

isNewerModel_Prefix(model) ==
    model \in NewerModels \cup {"gpt-4o-2024-08-06"}

isNewerModel(model) == model \in NewerModels

\* The reply of a provider to one call: a transport or status error, or a
\* decoded reply with its list of choices (OpenAI) or content blocks
\* (Anthropic), each a role and a text
UpstreamError == [kind |-> "error", choices |-> <<>>]
UpstreamOk(role, text) ==
    [kind |-> "ok", choices |-> <<[role |-> role, content |-> text]>>]
UpstreamEmpty == [kind |-> "ok", choices |-> <<>>]

\* the creation token of a reply: the stringified resp.Created or resp.ID
UpstreamCreated == "created-by-provider"

\* the error value of a failed upstream call, as message words
UpstreamErr(provider) == <<provider, " API error">>

\* The outcome of an adapter method: a value and an error as the method
\* returns them, or a panic; call is the request sent upstream
AdapterOutcome(call, reply, shape, model, role) ==
    IF reply.kind = "error"
    THEN [call |-> call, panic |-> FALSE, err |-> UpstreamErr(call.adapter),
          value |-> [shape |-> shape, isNil |-> TRUE]]
    ELSE IF reply.choices = <<>>
    THEN \* resp.Choices[0] / resp.Content[0]: index out of range
         [call |-> call, panic |-> TRUE, err |-> <<>>,
          value |-> [shape |-> shape, isNil |-> TRUE]]
    ELSE [call |-> call, panic |-> FALSE, err |-> <<>>,
          value |-> [shape |-> shape, isNil |-> FALSE, Model |-> model,
                     Role |-> role, Content |-> reply.choices[1].content,
                     CreatedAt |-> UpstreamCreated]]

\* the MaxTokens field of the openai.ChatCompletionRequest
OpenAIMaxTokens_Always(r) == r.MaxTokens

OpenAIMaxTokens(r) ==
    IF r.MaxTokens > 0 /\ ~isNewerModel(r.Model) THEN r.MaxTokens ELSE 0

\* the request an adapter sends upstream
UpstreamCall(slot, handler, method, r) ==
    [slot |-> slot, adapter |-> handler.name, method |-> method,
     request |-> r,
     Model |-> r.Model,
     MaxTokens |-> IF handler.name = BackendOpenAI THEN OpenAIMaxTokens(r)
                   ELSE r.MaxTokens,
     Messages |-> IF method = "Generate"
                  THEN <<[role |-> "user", content |-> r.Prompt]>>
                  ELSE r.Messages]

\* Generate of the adapter registered in slot
Generate(slot, handler, r, reply) ==
    AdapterOutcome(UpstreamCall(slot, handler, "Generate", r), reply,
                   "GenerateResponse", r.Model, "")

\* Chat of the adapter registered in slot: the OpenAI adapter passes the role
\* of the first choice on, the Anthropic adapter answers "assistant"
Chat(slot, handler, r, reply) ==
    AdapterOutcome(UpstreamCall(slot, handler, "Chat", r), reply,
                   "ChatResponse", r.Model,
                   IF handler.name = BackendOpenAI /\ reply.choices # <<>>
                   THEN reply.choices[1].role ELSE "assistant")

\* what ProcessRequest returns without calling an adapter
DispatchError(words) ==
    [calls |-> <<>>, panic |-> FALSE, err |-> words,
     value |-> [shape |-> "nil", isNil |-> TRUE]]

FromAdapter_Retry(o) ==
    [calls |-> IF o.err # <<>> THEN <<o.call, o.call>> ELSE <<o.call>>,
     panic |-> o.panic, err |-> o.err, value |-> o.value]

\* the one call of backend.Generate or backend.Chat and what it returned
FromAdapter(o) ==
    [calls |-> <<o.call>>, panic |-> o.panic, err |-> o.err, value |-> o.value]

ProcessRequest_NoAvailabilityCheck(bs, modelConfig, r, reply) ==
    IF modelConfig.Backend \notin DOMAIN bs
    THEN DispatchError(<<"backend ", modelConfig.Backend, " not available">>)
    ELSE CASE r.type = "GenerateRequest" ->
                  FromAdapter(Generate(modelConfig.Backend,
                                       bs[modelConfig.Backend], r, reply))
           [] r.type = "ChatRequest" ->
                  FromAdapter(Chat(modelConfig.Backend,
                                   bs[modelConfig.Backend], r, reply))
           [] OTHER -> DispatchError(<<"unsupported request type">>)

\* BackendManager.ProcessRequest
ProcessRequest(bs, modelConfig, r, reply) ==
    IF modelConfig.Backend \notin DOMAIN bs
    THEN DispatchError(<<"backend ", modelConfig.Backend, " not available">>)
    ELSE IF ~IsAvailable(bs[modelConfig.Backend])
    THEN DispatchError(<<"backend ", modelConfig.Backend, " is not available">>)
    ELSE CASE r.type = "GenerateRequest" ->
                  FromAdapter(Generate(modelConfig.Backend,
                                       bs[modelConfig.Backend], r, reply))
           [] r.type = "ChatRequest" ->
                  FromAdapter(Chat(modelConfig.Backend,
                                   bs[modelConfig.Backend], r, reply))
           [] OTHER -> DispatchError(<<"unsupported request type">>)

----------------------------------------------------------------------------
\* Response texts and their JSON encoding.  A response text is a sequence of
\* bytes: ASCII letters, and the two bytes of one two-byte character.

LeadByte == "0xC3"
ContByte == "0xA9"
TwoByteChar == "U+00E9"
Replacement == "U+FFFD"

\* json.Marshal of a string, as the client decodes it: a well-formed
\* character is kept, every byte that is not part of one becomes U+FFFD
RECURSIVE JSONString(_)
JSONString(b) ==
    IF b = <<>> THEN <<>>
    ELSE IF Head(b) = LeadByte
    THEN IF Len(b) >= 2 /\ b[2] = ContByte
         THEN <<TwoByteChar>> \o JSONString(Drop(b, 2))
         ELSE <<Replacement>> \o JSONString(Tail(b))
    ELSE IF Head(b) = ContByte
    THEN <<Replacement>> \o JSONString(Tail(b))
    ELSE <<Head(b)>> \o JSONString(Tail(b))

ErrorMarker == <<"E", "r", "r", "o", "r", ":">>

\* strings.Contains
ContainsSub(str, sub) ==
    \E i \in 0..(Len(str) - Len(sub)) : SubSeq(str, i + 1, i + Len(sub)) = sub

\* fmt.Sprintf("Error: %s", err.Error())
ErrorContent(words) == ErrorMarker \o <<" ">> \o words

\* fmt.Sprintf("%d", time.Now().Unix())
Now == "created-by-clock"

----------------------------------------------------------------------------
\* Translation layer

NoBody == [kind |-> "none"]

\* gin.H{"error": ...}
ErrorBody(words) == [kind |-> "error", error |-> words]

NdjsonType == "application/x-ndjson"
JsonType == "application/json; charset=utf-8"

\* c.JSON(code, obj) on a response whose Content-Type header is ctype: gin
\* keeps a Content-Type that is already set
WriteJSON(ctype, code, obj) ==
    [status |-> code, ctype |-> IF ctype = "" THEN JsonType ELSE ctype,
     body |-> obj, lines |-> <<>>, panic |-> FALSE]

\* a panic in the handler: gin's recovery answers 500 without a body
Recovered(ctype) ==
    [status |-> 500, ctype |-> ctype, body |-> NoBody, lines |-> <<>>,
     panic |-> TRUE]

OllamaChatResponse(model, createdAt, role, content, done) ==
    [kind |-> "chat", model |-> model, created_at |-> createdAt,
     role |-> role, content |-> content, done |-> done, context |-> <<>>]

OllamaGenerateResponse(model, createdAt, content, done) ==
    [kind |-> "generate", model |-> model, created_at |-> createdAt,
     role |-> "", content |-> content, done |-> done, context |-> <<>>]

ConvertOllamaToChatRequest(r, maxTokens) ==
    [type |-> "ChatRequest", Model |-> r.model, Messages |-> r.messages,
     Prompt |-> EmptyText, MaxTokens |-> maxTokens]

ConvertOllamaToGenerateRequest(r, maxTokens) ==
    [type |-> "GenerateRequest", Model |-> r.model, Messages |-> <<>>,
     Prompt |-> r.prompt, MaxTokens |-> maxTokens]

ConvertChatToOllamaResponse_ProviderModel(value, model) ==
    OllamaChatResponse(value.Model, value.CreatedAt, value.Role, value.Content,
                       TRUE)

ConvertChatToOllamaResponse(value, model) ==
    OllamaChatResponse(model, value.CreatedAt, value.Role, value.Content, TRUE)

ConvertGenerateToOllamaResponse(value, model) ==
    OllamaGenerateResponse(model, value.CreatedAt, value.Content, TRUE)

\* the body of a non-streaming answer, as json.Marshal writes it
Marshal(response) == [response EXCEPT !.content = JSONString(@)]

\* the words of the request-too-long error
TooLongError(v) ==
    <<"request too long: estimated ", ToString(v.estimated),
      " tokens exceeds model limit of ", ToString(v.limit),
      " tokens (max input: ", ToString(v.maxInput), " tokens)">>

----------------------------------------------------------------------------
\* Streaming emitter

ChunkSize == 3

\* createStreamResponse and writeResponse: one ndjson line
StreamLine(response, content, done) ==
    IF response.kind = "chat"
    THEN Marshal(OllamaChatResponse(response.model, response.created_at,
                                    "assistant", content, done))
    ELSE Marshal(OllamaGenerateResponse(response.model, response.created_at,
                                        content, done))

\* the loop of streamNormalResponse from byte index i (0-based)
RECURSIVE StreamChunksFrom(_, _, _)
StreamChunksFrom(response, i, size) ==
    IF ~(i < Len(response.content)) THEN <<>>
    ELSE LET end == IF i + size > Len(response.content)
                    THEN Len(response.content) ELSE i + size
             chunk == SubSeq(response.content, i + 1, end)
             done == end >= Len(response.content)
         IN  <<StreamLine(response, chunk, done)>>
             \o StreamChunksFrom(response, i + size, size)

streamNormalResponse(response) == StreamChunksFrom(response, 0, ChunkSize)

streamErrorResponse(response) ==
    <<StreamLine(response, response.content, TRUE)>>

streamResponse_AlwaysChunked(ctype, response) ==
    [status |-> 200, ctype |-> ctype, body |-> NoBody,
     lines |-> streamNormalResponse(response), panic |-> FALSE]

\* streamResponse: the lines written under HTTP 200 and the headers set
streamResponse(ctype, response) ==
    IF response.kind \notin {"chat", "generate"}
    THEN WriteJSON(ctype, 500, ErrorBody(<<"unsupported response type">>))
    ELSE [status |-> 200, ctype |-> ctype, body |-> NoBody,
          lines |-> IF ContainsSub(response.content, ErrorMarker)
                    THEN streamErrorResponse(response)
                    ELSE streamNormalResponse(response),
          panic |-> FALSE]

----------------------------------------------------------------------------
\* Request handlers.  A handler yields the response written, the adapter
\* calls made, the generic request handed to ProcessRequest and what
\* ProcessRequest returned.

Handled(response, generic, pr) ==
    [resp |-> response, calls |-> pr.calls,
     result |-> [reached |-> TRUE, request |-> generic, panic |-> pr.panic,
                 err |-> pr.err, value |-> pr.value]]

NotDispatched(response) ==
    [resp |-> response, calls |-> <<>>, result |-> NoResult]

HasModel_EnabledOnly(ms, name) == name \in DOMAIN ms /\ ms[name].Enabled

\* ModelRegistry.GetModel
HasModel(ms, name) == name \in DOMAIN ms

PromptMessages_Empty(r) == <<>>

\* the prompt of a generate request as one user message
PromptMessages(r) == <<[role |-> "user", content |-> r.prompt]>>

\* StreamingHandler.HandleStreamingChat
HandleStreamingChat(ms, bs, r, reply) ==
    IF ~HasModel(ms, r.model)
    THEN NotDispatched(streamResponse(NdjsonType,
             OllamaChatResponse(r.model, Now, "assistant",
                                ErrorContent(<<"model not found">>), TRUE)))
    ELSE LET modelConfig == ms[r.model]
             v == ValidateTokenLimits(modelConfig, r.messages)
             maxTokensForRequest ==
                 CalculateMaxTokensForRequest(modelConfig, r.messages)
             chatReq == [ConvertOllamaToChatRequest(r, maxTokensForRequest)
                            EXCEPT !.Model = modelConfig.BackendModel]
             pr == ProcessRequest(bs, modelConfig, chatReq, reply)
         IN  IF ~v.ok
             THEN NotDispatched(streamResponse(NdjsonType,
                      OllamaChatResponse(r.model, Now, "assistant",
                                         ErrorContent(TooLongError(v)), TRUE)))
             ELSE IF pr.panic THEN Handled(Recovered(NdjsonType), chatReq, pr)
             ELSE IF pr.err # <<>>
             THEN Handled(streamResponse(NdjsonType,
                      OllamaChatResponse(r.model, Now, "assistant",
                                         ErrorContent(pr.err), TRUE)), chatReq, pr)
             ELSE IF pr.value.shape # "ChatResponse"
             THEN Handled(WriteJSON(NdjsonType, 500,
                                    ErrorBody(<<"invalid response type">>)), chatReq, pr)
             ELSE Handled(streamResponse(NdjsonType,
                      ConvertChatToOllamaResponse(pr.value, r.model)), chatReq, pr)

\* StreamingHandler.HandleStreamingGenerate
HandleStreamingGenerate(ms, bs, r, reply) ==
    IF ~HasModel(ms, r.model)
    THEN NotDispatched(streamResponse(NdjsonType,
             OllamaGenerateResponse(r.model, Now,
                                    ErrorContent(<<"model not found">>), TRUE)))
    ELSE LET modelConfig == ms[r.model]
             maxTokensForRequest ==
                 CalculateMaxTokensForRequest(modelConfig, PromptMessages(r))
             generateReq ==
                 [ConvertOllamaToGenerateRequest(r, maxTokensForRequest)
                     EXCEPT !.Model = modelConfig.BackendModel]
             pr == ProcessRequest(bs, modelConfig, generateReq, reply)
         IN  IF pr.panic THEN Handled(Recovered(NdjsonType), generateReq, pr)
             ELSE IF pr.err # <<>>
             THEN Handled(streamResponse(NdjsonType,
                      OllamaGenerateResponse(r.model, Now,
                                             ErrorContent(pr.err), TRUE)), generateReq, pr)
             ELSE IF pr.value.shape # "GenerateResponse"
             THEN Handled(streamResponse(NdjsonType,
                      OllamaGenerateResponse(r.model, Now,
                          ErrorContent(<<"invalid response type">>), TRUE)), generateReq, pr)
             ELSE Handled(streamResponse(NdjsonType,
                      ConvertGenerateToOllamaResponse(pr.value, r.model)), generateReq, pr)

\* ProxyServerV2.HandleChat
HandleChat(ms, bs, r, reply) ==
    IF r.malformed
    THEN NotDispatched(WriteJSON("", 400, ErrorBody(<<"invalid JSON">>)))
    ELSE IF r.stream THEN HandleStreamingChat(ms, bs, r, reply)
    ELSE IF ~HasModel(ms, r.model)
    THEN NotDispatched(WriteJSON("", 400, ErrorBody(<<"model not found">>)))
    ELSE LET modelConfig == ms[r.model]
             v == ValidateTokenLimits(modelConfig, r.messages)
             maxTokensForRequest ==
                 CalculateMaxTokensForRequest(modelConfig, r.messages)
             chatReq == [ConvertOllamaToChatRequest(r, maxTokensForRequest)
                            EXCEPT !.Model = modelConfig.BackendModel]
             pr == ProcessRequest(bs, modelConfig, chatReq, reply)
         IN  IF ~v.ok
             THEN NotDispatched(WriteJSON("", 400, ErrorBody(TooLongError(v))))
             ELSE IF pr.panic THEN Handled(Recovered(""), chatReq, pr)
             ELSE IF pr.err # <<>>
             THEN Handled(WriteJSON("", 500, ErrorBody(pr.err)), chatReq, pr)
             ELSE IF pr.value.shape # "ChatResponse"
             THEN Handled(WriteJSON("", 500,
                                    ErrorBody(<<"invalid response type">>)), chatReq, pr)
             ELSE Handled(WriteJSON("", 200,
                      Marshal(ConvertChatToOllamaResponse(pr.value, r.model))), chatReq, pr)

\* ModelConfig.ToOllamaModel
ToOllamaModel(m) ==
    [kind |-> "model", name |-> m.Name, model |-> m.Name,
     size |-> 1000000000, digest |-> <<"sha256:", m.Name>>]

\* c.Param("model") under the route the request came through: the route of
\* the entry point, POST /api/show, has no parameter of that name
Param(r) == IF r.endpoint = "/api/show/:model" THEN r.model ELSE ""

\* ProxyServerV2.HandleShow
HandleShow(ms, r) ==
    LET modelName == Param(r)
    IN  IF modelName = ""
        THEN NotDispatched(WriteJSON("", 400,
                 ErrorBody(<<"model parameter is required">>)))
        ELSE IF ~HasModel(ms, modelName)
        THEN NotDispatched(WriteJSON("", 400, ErrorBody(<<"model not found">>)))
        ELSE NotDispatched(WriteJSON("", 200, ToOllamaModel(ms[modelName])))

GenerateStreamRequested_Ignored(r) == FALSE

\* HandleGenerate: if req.Stream
GenerateStreamRequested(r) == r.stream

\* ProxyServerV2.HandleGenerate
HandleGenerate(ms, bs, r, reply) ==
    IF r.malformed
    THEN NotDispatched(WriteJSON("", 400, ErrorBody(<<"invalid JSON">>)))
    ELSE IF GenerateStreamRequested(r)
    THEN NotDispatched(WriteJSON("", 400,
             ErrorBody(<<"streaming not supported for generate endpoint">>)))
    ELSE IF ~HasModel(ms, r.model)
    THEN NotDispatched(WriteJSON("", 400, ErrorBody(<<"model not found">>)))
    ELSE LET modelConfig == ms[r.model]
             maxTokensForRequest ==
                 CalculateMaxTokensForRequest(modelConfig, PromptMessages(r))
             generateReq ==
                 [ConvertOllamaToGenerateRequest(r, maxTokensForRequest)
                     EXCEPT !.Model = modelConfig.BackendModel]
             pr == ProcessRequest(bs, modelConfig, generateReq, reply)
         IN  IF pr.panic THEN Handled(Recovered(""), generateReq, pr)
             ELSE IF pr.err # <<>>
             THEN Handled(WriteJSON("", 500, ErrorBody(pr.err)), generateReq, pr)
             ELSE IF pr.value.shape # "GenerateResponse"
             THEN Handled(WriteJSON("", 500,
                                    ErrorBody(<<"invalid response type">>)), generateReq, pr)
             ELSE Handled(WriteJSON("", 200,
                      Marshal(ConvertGenerateToOllamaResponse(pr.value,
                                                              r.model))), generateReq, pr)

----------------------------------------------------------------------------
\* The server: the catalog, the adapters, and the last exchange

MaxLen == 7

\* the catalog NewModelRegistry builds, three entries of its table
DefaultModels ==
    [n \in {"claude-4.5-sonnet", "gpt-4o", "gpt-4"} |->
        CASE n = "claude-4.5-sonnet" ->
                 [Name |-> n, Backend |-> BackendAnthropic,
                  BackendModel |-> "claude-3-5-sonnet-20241022",
                  MaxTokens |-> 200000, Enabled |-> TRUE]
          [] n = "gpt-4o" ->
                 [Name |-> n, Backend |-> BackendOpenAI,
                  BackendModel |-> "gpt-4o", MaxTokens |-> 4096,
                  Enabled |-> TRUE]
          [] OTHER ->
                 [Name |-> n, Backend |-> BackendOpenAI,
                  BackendModel |-> "gpt-4", MaxTokens |-> 4096,
                  Enabled |-> TRUE]]

\* model names a client sends: the catalog's, one it does not hold, and none
RequestNames == DOMAIN DefaultModels \cup {"non-existent-model", ""}

\* message lists of a chat request: none, a short one, and one whose estimate
\* (6144) passes the 200000 window and exceeds the 4096 window
ChatMessages ==
    {<<>>, <<[role |-> "user", content |-> MkText(0, 5, 0)]>>,
     <<[role |-> "user", content |-> MkText(0, 24516, 0)]>>}

Prompts == {MkText(0, 5, 0), MkText(0, 24516, 0)}

\* response texts: runs of one letter up to MaxLen bytes, texts holding the
\* two-byte character, and texts holding "Error:"; the replies carry them
\* under the role "assistant", and one reply carries another role
Letters(n) == [i \in 1..n |-> "a"]

Texts ==
    {Letters(n) : n \in 0..MaxLen}
    \cup {<<LeadByte, ContByte>>, <<"a", "a", LeadByte, ContByte>>,
          <<"a">> \o ErrorMarker, ErrorMarker \o <<" ", "a", "a">>}

Replies ==
    {UpstreamError, UpstreamEmpty} \cup {UpstreamOk("assistant", t) : t \in Texts}
    \cup {UpstreamOk("function", Letters(2))}

ChatRequests ==
    {[NoReq EXCEPT !.endpoint = "/api/chat", !.malformed = TRUE]}
    \cup {[NoReq EXCEPT !.endpoint = "/api/chat", !.model = n, !.stream = st,
                        !.messages = ms] :
             n \in RequestNames, st \in BOOLEAN, ms \in ChatMessages}

GenerateRequests ==
    {[NoReq EXCEPT !.endpoint = "/api/generate", !.malformed = TRUE]}
    \cup {[NoReq EXCEPT !.endpoint = "/api/generate", !.model = n,
                        !.stream = st, !.prompt = pt] :
             n \in RequestNames, st \in BOOLEAN, pt \in Prompts}

\* requests handed to the streaming generate handler
StreamingGenerateRequests ==
    {[r EXCEPT !.endpoint = "HandleStreamingGenerate"] :
        r \in {g \in GenerateRequests : g.stream /\ ~g.malformed}}

\* generic requests handed to ProcessRequest directly
BackendModels ==
    NewerModels \cup {"gpt-4", "gpt-3.5-turbo", "gpt-4o-2024-08-06",
                      "claude-3-5-sonnet-20241022", ""}

GenericRequests ==
    {[NoGeneric EXCEPT !.type = "OtherRequest"]}
    \cup {[NoGeneric EXCEPT !.type = "GenerateRequest", !.Model = m,
                            !.Prompt = MkText(0, 5, 0), !.MaxTokens = mt] :
             m \in BackendModels, mt \in {0, 1000}}
    \cup {[NoGeneric EXCEPT !.type = "ChatRequest", !.Model = m,
                            !.Messages = <<[role |-> "user",
                                            content |-> MkText(0, 5, 0)]>>,
                            !.MaxTokens = mt] :
             m \in BackendModels, mt \in {0, 1000}}

DirectReplies == {UpstreamError, UpstreamEmpty, UpstreamOk("assistant", Letters(4))}

\* the replies that can tell two runs of a handler apart: any one reply when
\* the handler, whose outcome on a failing provider is h, reaches no adapter
RepliesOf(h, all) == IF h.calls = <<>> THEN {UpstreamError} ELSE all

\* the reply the provider gave to the call made, if one was made
Exchange(h, reply) ==
    [i \in 1..Len(h.calls) |-> [call |-> h.calls[i], reply |-> reply]]

Serve(r, h, reply) ==
    /\ req' = r
    /\ resp' = h.resp
    /\ calls' = Exchange(h, reply)
    /\ result' = h.result
    /\ UNCHANGED <<models, backends, tok, flt, admin, boot, config, threads>>

ServeChat ==
    \E r \in ChatRequests :
        LET H(reply) == HandleChat(models, backends, r, reply)
        IN  \E reply \in RepliesOf(H(UpstreamError), Replies) : Serve(r, H(reply), reply)

ServeGenerate ==
    \E r \in GenerateRequests :
        LET H(reply) == HandleGenerate(models, backends, r, reply)
        IN  \E reply \in RepliesOf(H(UpstreamError), Replies) : Serve(r, H(reply), reply)

ServeStreamingGenerate ==
    \E r \in StreamingGenerateRequests :
        LET H(reply) == HandleStreamingGenerate(models, backends, r, reply)
        IN  \E reply \in RepliesOf(H(UpstreamError), Replies) : Serve(r, H(reply), reply)

\* show requests: through the route of the entry point, with the name in the
\* JSON body, and through the route of the integration test, with the name
\* in the path
ShowRequests ==
    {[NoReq EXCEPT !.endpoint = e, !.model = n] :
        e \in {"/api/show", "/api/show/:model"}, n \in RequestNames} \
    {[NoReq EXCEPT !.endpoint = "/api/show/:model"]}

ServeShow ==
    \E r \in ShowRequests : Serve(r, HandleShow(models, r), UpstreamError)

\* a direct call of BackendManager.ProcessRequest
CallProcessRequest ==
    \E p \in Providers, r \in GenericRequests :
        LET modelConfig == [NoConfig EXCEPT !.Name = r.Model, !.Backend = p,
                                            !.BackendModel = r.Model]
            H(reply) == Handled(NoResp, r,
                                ProcessRequest(backends, modelConfig, r, reply))
        IN  \E reply \in RepliesOf(H(UpstreamError), DirectReplies) :
                Serve([NoReq EXCEPT !.endpoint = "ProcessRequest",
                                    !.config = modelConfig, !.generic = r],
                      H(reply), reply)

\* BackendManager.RegisterBackend with an adapter of the slot's provider; the
\* exchange kept is one with the adapters as they are now
RegisterBackend ==
    \E p \in Providers, hasKey \in BOOLEAN :
        /\ backends' = RegisterBackendIn(backends, p, NewBackend(p, hasKey))
        /\ req' = NoReq
        /\ resp' = NoResp
        /\ calls' = <<>>
        /\ result' = NoResult
        /\ UNCHANGED <<models, tok, flt, admin, boot, config, threads>>

Init ==
    /\ models = DefaultModels
    /\ backends \in {CreateBackends(a, o) : a, o \in BOOLEAN}
    /\ req = NoReq
    /\ resp = NoResp
    /\ calls = <<>>
    /\ result = NoResult
    /\ tok = NoTok
    /\ flt = NoFlt
    /\ admin = NoAdmin
    /\ boot = NoBoot
    /\ config = LoadConfig(Unset)
    /\ threads = NoThreads

Next ==
    \/ ServeChat
    \/ ServeGenerate
    \/ ServeStreamingGenerate
    \/ ServeShow
    \/ CallProcessRequest
    \/ RegisterBackend

Spec == Init /\ [][Next]_vars

----------------------------------------------------------------------------
\* Properties of the server

StreamingChat ==
    req.endpoint = "/api/chat" /\ req.stream /\ ~req.malformed

NonStreamingChat ==
    req.endpoint = "/api/chat" /\ ~req.stream /\ ~req.malformed

StreamingGenerate == req.endpoint = "HandleStreamingGenerate"

GenerateRequest ==
    req.endpoint \in {"/api/generate", "HandleStreamingGenerate"}
    /\ ~req.malformed

KnownModel == req.model \in DOMAIN models

\* dispatch returned a value and no error
Succeeded == result.reached /\ ~result.panic /\ result.err = <<>>

\* the text of the adapter's result
ResultText == result.value.Content

CeilDiv(n, d) == (n + d - 1) \div d

RECURSIVE ConcatContent(_)
ConcatContent(ls) ==
    IF ls = <<>> THEN <<>> ELSE Head(ls).content \o ConcatContent(Tail(ls))

\* one ndjson line with done = true and content "Error: ..." under HTTP 200
OneErrorLine ==
    /\ resp.status = 200
    /\ resp.ctype = NdjsonType
    /\ resp.body = NoBody
    /\ Len(resp.lines) = 1
    /\ resp.lines[1].done
    /\ Len(resp.lines[1].content) > Len(ErrorMarker)
    /\ SubSeq(resp.lines[1].content, 1, Len(ErrorMarker)) = ErrorMarker

\* C1: a streaming chat or generate request whose model resolves and whose
\* dispatch succeeds with a text of n >= 1 units is answered by ceil(n/3)
\* ndjson lines; line i carries the slice [3(i-1), min(3i, n)) of the text,
\* done is true on the last line only, and the contents of the lines in order
\* make up the text, whatever characters it holds.
C1_ChunkedStream ==
    ((StreamingChat \/ StreamingGenerate) /\ KnownModel /\ Succeeded
         /\ Len(ResultText) >= 1)
    => LET n == Len(ResultText)
       IN  /\ Len(resp.lines) = CeilDiv(n, 3)
           /\ \A i \in 1..Len(resp.lines) :
                 /\ resp.lines[i].content
                        = JSONString(SubSeq(ResultText, 3 * (i - 1) + 1,
                                            Min(3 * i, n)))
                 /\ resp.lines[i].done <=> (i = Len(resp.lines))
           /\ ConcatContent(resp.lines) = JSONString(ResultText)

StreamingChatFailed ==
    /\ StreamingChat
    /\ \/ ~KnownModel
       \/ ~ValidateTokenLimits(models[req.model], req.messages).ok
       \/ result.reached /\ ~Succeeded
       \/ result.reached /\ result.value.shape # "ChatResponse"

\* C3: on the streaming chat path every failure is reported as one ndjson
\* line with done = true and content "Error: <reason>" under 200, and once
\* the ndjson headers are set no JSON error body is written with another
\* status.
C3_StreamingChatErrors ==
    /\ StreamingChatFailed => OneErrorLine
    /\ StreamingChat => ~(resp.body.kind = "error" /\ resp.status # 200)

\* the part of C6 about chat requests: validation precedes the adapter call
ChatValidatedFirst ==
    ((StreamingChat \/ NonStreamingChat) /\ KnownModel)
    => LET v == ValidateTokenLimits(models[req.model], req.messages)
       IN  /\ calls # <<>> => v.ok
           /\ ~v.ok =>
                 /\ calls = <<>>
                 /\ ~result.reached
                 /\ IF req.stream THEN OneErrorLine
                    ELSE /\ resp.status = 400
                         /\ resp.ctype = JsonType
                         /\ resp.body.kind = "error"
                         /\ resp.lines = <<>>

\* a generate request reached dispatch with the budget of its prompt taken as
\* one user message
GenerateDispatched ==
    /\ result.reached
    /\ result.request.type = "GenerateRequest"
    /\ result.request.Prompt = req.prompt
    /\ result.request.MaxTokens
           = CalculateMaxTokensForRequest(
                 models[req.model],
                 <<[role |-> "user", content |-> req.prompt]>>)
    /\ \A i \in 1..Len(calls) :
           calls[i].call.request = result.request

\* C6 as stated: a chat request on a known model is validated before any
\* adapter call and a failed validation ends the request with an error; a
\* generate request on a known model always reaches dispatch with the budget
\* of its prompt.
C6_Original ==
    /\ ChatValidatedFirst
    /\ (GenerateRequest /\ KnownModel) => GenerateDispatched

\* C6 (amended): as stated, but for generate requests other than those the
\* generate endpoint rejects for stream = true.
C6_ValidationBeforeDispatch ==
    /\ ChatValidatedFirst
    /\ (GenerateRequest /\ KnownModel
            /\ ~(req.endpoint = "/api/generate" /\ req.stream))
       => GenerateDispatched

C6_Witness ==
    /\ NonStreamingChat
    /\ req.model = "gpt-4"
    /\ ~ValidateTokenLimits(models[req.model], req.messages).ok
    /\ resp.status = 400
    /\ calls = <<>>

\* the provider named by an error value
NamesProvider(err, p) == \E i \in 1..Len(err) : err[i] = p

\* C9: ProcessRequest calls only the adapter registered under the entry's
\* provider, Generate for a generate request and Chat for a chat request, and
\* returns an error for another shape; with no adapter registered for the
\* provider, or one that is not available, it returns an error naming the
\* provider and calls nothing.
C9_Routing ==
    req.endpoint = "ProcessRequest"
    => LET p == req.config.Backend
           r == req.generic
       IN  /\ \A i \in 1..Len(calls) :
                 /\ calls[i].call.slot = p
                 /\ p \in DOMAIN backends
                 /\ calls[i].call.adapter = backends[p].name
           /\ (p \notin DOMAIN backends \/ ~backends[p].hasKey)
              => /\ calls = <<>>
                 /\ result.err # <<>>
                 /\ NamesProvider(result.err, p)
           /\ (p \in DOMAIN backends /\ backends[p].hasKey)
              => CASE r.type = "GenerateRequest" ->
                          /\ Len(calls) = 1
                          /\ calls[1].call.method = "Generate"
                          /\ calls[1].call.request = r
                   [] r.type = "ChatRequest" ->
                          /\ Len(calls) = 1
                          /\ calls[1].call.method = "Chat"
                          /\ calls[1].call.request = r
                   [] OTHER -> calls = <<>> /\ result.err # <<>>

C9_Witness ==
    /\ req.endpoint = "ProcessRequest"
    /\ req.config.Backend \in DOMAIN backends
    /\ ~backends[req.config.Backend].hasKey
    /\ req.generic.type = "ChatRequest"
    /\ result.err # <<>>
    /\ calls = <<>>

\* C10: the OpenAI adapter leaves MaxTokens of the upstream request at 0 for
\* the model ids gpt-4o, gpt-4o-mini, gpt-5, gpt-4.1 and gpt-4.5, and sets it
\* to the budget of the generic request for every other id.
C10_NewerModelMaxTokens ==
    \A i \in 1..Len(calls) :
        calls[i].call.adapter = "openai"
        => calls[i].call.MaxTokens
               = (IF calls[i].call.request.Model
                        \in {"gpt-4o", "gpt-4o-mini", "gpt-5", "gpt-4.1",
                             "gpt-4.5"}
                  THEN 0 ELSE calls[i].call.request.MaxTokens)

C10_Witness ==
    /\ req.endpoint = "ProcessRequest"
    /\ Len(calls) = 1
    /\ calls[1].call.adapter = "openai"
    /\ calls[1].call.request.Model = "gpt-4o-2024-08-06"
    /\ calls[1].call.request.MaxTokens = 1000
    /\ calls[1].call.MaxTokens = 1000

\* C11: through the route the entry point registers, POST /api/show with the
\* name in the body, a show request for a catalog entry N is answered 200
\* with name = N, model = N and digest = "sha256:" + N, and one for a name the
\* catalog does not hold is answered 400.
C11_ShowEndpoint ==
    req.endpoint = "/api/show"
    => IF KnownModel
       THEN /\ resp.status = 200
            /\ resp.body.kind = "model"
            /\ resp.body.name = req.model
            /\ resp.body.model = req.model
            /\ resp.body.digest = <<"sha256:", req.model>>
       ELSE resp.status = 400

----------------------------------------------------------------------------
\* Start-up: NewProxyServerV2 creates the adapters from the keys of the
\* configuration and fills the catalog from the providers' model listings.

MaxListing == 2

Id_claude35haiku ==
    <<"c", "l", "a", "u", "d", "e", "-", "3", "-", "5", "-", "h", "a", "i",
      "k", "u", "-", "2", "0", "2", "4", "1", "0", "2", "2">>
Id_claude2 == <<"c", "l", "a", "u", "d", "e", "-", "2">>
Id_claude35sonnet0620 ==
    <<"c", "l", "a", "u", "d", "e", "-", "3", "-", "5", "-", "s", "o", "n",
      "n", "e", "t", "-", "2", "0", "2", "4", "0", "6", "2", "0">>
Id_gpt35turbo ==
    <<"g", "p", "t", "-", "3", ".", "5", "-", "t", "u", "r", "b", "o">>

\* index of the first occurrence of c in s, 0 if there is none
IndexOf(s, c) ==
    IF Contains(s, c) THEN CHOOSE i \in 1..Len(s) :
                               s[i] = c /\ \A j \in 1..(i - 1) : s[j] # c
    ELSE 0

\* strings.Split(s, sep) for a one-character separator
RECURSIVE Split(_, _)
Split(s, sep) ==
    IF IndexOf(s, sep) = 0 THEN <<s>>
    ELSE <<SubSeq(s, 1, IndexOf(s, sep) - 1)>>
         \o Split(Drop(s, IndexOf(s, sep)), sep)

\* strings.Join(parts, sep)
RECURSIVE Join(_, _)
Join(parts, sep) ==
    IF parts = <<>> THEN <<>>
    ELSE IF Len(parts) = 1 THEN parts[1]
    ELSE parts[1] \o <<sep>> \o Join(Tail(parts), sep)

\* ModelFetcher.generateModelName
generateModelName(apiModelID, backend) ==
    IF backend = BackendAnthropic
    THEN LET parts == Split(apiModelID, "-")
             joined == IF Len(parts) > 3
                       THEN [parts EXCEPT
                                ![3] = Join(SubSeq(parts, 3, Len(parts) - 1),
                                            ".")]
                       ELSE parts
         IN  IF Len(parts) >= 3 THEN Join(SubSeq(joined, 1, 3), "-")
             ELSE apiModelID
    ELSE apiModelID

\* ModelFetcher.estimateMaxTokens
estimateMaxTokens(apiModelID, backend) ==
    IF backend = BackendOpenAI
    THEN IF ContainsSub(apiModelID, <<"g", "p", "t", "-", "4", "o">>)
         THEN 128000
         ELSE IF ContainsSub(apiModelID, <<"g", "p", "t", "-", "4">>)
         THEN 8192
         ELSE 4096
    ELSE IF ContainsSub(apiModelID,
                        <<"c", "l", "a", "u", "d", "e", "-", "3", "-", "5">>)
         THEN 200000
         ELSE IF ContainsSub(apiModelID,
                        <<"c", "l", "a", "u", "d", "e", "-", "3", "-", "7">>)
         THEN 8192
         ELSE IF ContainsSub(apiModelID,
                             <<"c", "l", "a", "u", "d", "e", "-", "3">>)
         THEN 200000
         ELSE 100000

\* the ModelConfig built for a listed model
FetchedModel(apiModelID, backend) ==
    [Name |-> generateModelName(apiModelID, backend), Backend |-> backend,
     BackendModel |-> apiModelID,
     MaxTokens |-> estimateMaxTokens(apiModelID, backend), Enabled |-> TRUE]

KeyOf(cfg, backend) ==
    IF backend = BackendAnthropic THEN cfg.AnthropicAPIKey
    ELSE cfg.OpenAIAPIKey

\* the loop of fetchAnthropicModels / fetchOpenAIModels over the listing
RECURSIVE FilterListing(_, _, _)
FilterListing(ids, filter, backend) ==
    IF ids = <<>> THEN <<>>
    ELSE (IF matchesFilters(Head(ids), filter)
          THEN <<FetchedModel(Head(ids), backend)>> ELSE <<>>)
         \o FilterListing(Tail(ids), filter, backend)

\* fetchAnthropicModels / fetchOpenAIModels: the listing call and the loop
fetchModels(cfg, backend, listing) ==
    IF ~listing.ok THEN [err |-> TRUE, models |-> <<>>]
    ELSE [err |-> FALSE,
          models |-> FilterListing(listing.ids, cfg.ModelFilters[backend],
                                   backend)]

fetchModelsIfEnabled_NoKeyCheck(cfg, backend, listing) ==
    IF ~cfg.ModelFilters[backend].Enabled
    THEN [called |-> FALSE, models |-> <<>>]
    ELSE [called |-> TRUE, models |-> fetchModels(cfg, backend, listing).models]

\* fetchAnthropicModelsIfEnabled / fetchOpenAIModelsIfEnabled: whether the
\* provider's listing was called, and the entries contributed
fetchModelsIfEnabled(cfg, backend, listing) ==
    IF ~cfg.ModelFilters[backend].Enabled \/ ~KeyOf(cfg, backend)
    THEN [called |-> FALSE, models |-> <<>>]
    ELSE [called |-> TRUE, models |-> fetchModels(cfg, backend, listing).models]

FetchAllModels_NoEmptyCheck(allModels) ==
    [err |-> <<>>, models |-> allModels]

\* the end of FetchAllModels
FetchAllModels(allModels) ==
    IF Len(allModels) = 0
    THEN [err |-> <<"no models could be fetched from any backend">>,
          models |-> <<>>]
    ELSE [err |-> <<>>, models |-> allModels]

\* registry.models[model.Name] = model over the fetched models of available
\* backends, a later model replacing an earlier one of the same name
RECURSIVE AddAvailable(_, _, _)
AddAvailable(registry, dynamicModels, available) ==
    IF dynamicModels = <<>> THEN registry
    ELSE LET model == Head(dynamicModels)
             next == IF model.Backend \in available
                     THEN [n \in DOMAIN registry \cup {model.Name} |->
                              IF n = model.Name THEN model ELSE registry[n]]
                     ELSE registry
         IN  AddAvailable(next, Tail(dynamicModels), available)

\* NewModelRegistryWithDynamicFetching, from the models fetched
NewModelRegistryWithDynamicFetching(allModels, bs) ==
    LET fetched == FetchAllModels(allModels)
    IN  IF fetched.err # <<>>
        THEN [err |-> <<"failed to fetch models: ">> \o fetched.err,
              models |-> <<>>]
        ELSE [err |-> <<>>,
              models |-> AddAvailable(<<>>, fetched.models,
                                      GetAvailableBackends(bs))]

\* the ids a provider lists
ListedIds(backend) ==
    IF backend = BackendAnthropic
    THEN {Id_claude35sonnet, Id_claude35sonnet0620, Id_claude35haiku,
          Id_claude3opus, Id_claude2}
    ELSE {Id_gpt4o, Id_gpt4omini, Id_gpt35turbo}

\* sequences without repetition of at most n elements of S
SeqsNoRep(S, n) ==
    {q \in SeqsUpTo(S, n) : \A i, j \in 1..Len(q) : i # j => q[i] # q[j]}

\* what a provider answers to the listing call: a failure or a listing
Listings(backend) ==
    {[ok |-> FALSE, ids |-> <<>>]}
    \cup {[ok |-> TRUE, ids |-> ids] :
             ids \in SeqsNoRep(ListedIds(backend), MaxListing)}

\* the filter rules of a provider: disabled, enabled without patterns, and
\* enabled with patterns
FilterRules(backend) ==
    {[Enabled |-> FALSE, IncludePatterns |-> <<>>, ExcludePatterns |-> <<>>],
     [Enabled |-> TRUE, IncludePatterns |-> <<>>, ExcludePatterns |-> <<>>],
     IF backend = BackendAnthropic
     THEN [Enabled |-> TRUE, IncludePatterns |-> <<Pat_claude>>,
           ExcludePatterns |-> <<Pat_claude35>>]
     ELSE [Enabled |-> TRUE, IncludePatterns |-> <<Pat_gpt4x>>,
           ExcludePatterns |-> <<>>]}

\* config.LoadConfig and LoadConfigFromFile: the keys (set or empty) and the
\* filter rules
Configs ==
    {[AnthropicAPIKey |-> a, OpenAIAPIKey |-> o,
      ModelFilters |-> [p \in Providers |->
                           IF p = BackendAnthropic THEN fa ELSE fo]] :
        a \in BOOLEAN, o \in BOOLEAN,
        fa \in FilterRules(BackendAnthropic), fo \in FilterRules(BackendOpenAI)}

Boots ==
    {[pc |-> "config", cfg |-> c,
      upstream |-> [p \in Providers |->
                       IF p = BackendAnthropic THEN la ELSE lo],
      fetched |-> {}, allModels |-> <<>>, err |-> <<>>] :
        c \in Configs, la \in Listings(BackendAnthropic),
        lo \in Listings(BackendOpenAI)}

\* backend.NewBackendFactory(...).CreateBackends()
CreateBackendsStep ==
    /\ boot.pc = "config"
    /\ backends' = CreateBackends(boot.cfg.AnthropicAPIKey,
                                  boot.cfg.OpenAIAPIKey)
    /\ boot' = [boot EXCEPT !.pc = "backends"]
    /\ UNCHANGED <<models, req, resp, calls, result, tok, flt, admin, config, threads>>

\* one call of fetchBackendModels in FetchAllModels
FetchStep(backend, from, to) ==
    /\ boot.pc = from
    /\ LET f == fetchModelsIfEnabled(boot.cfg, backend, boot.upstream[backend])
       IN  boot' = [boot EXCEPT
                       !.pc = to,
                       !.fetched = IF f.called THEN @ \cup {backend} ELSE @,
                       !.allModels = @ \o f.models]
    /\ UNCHANGED <<serverVars, tok, flt, admin, config, threads>>

FetchAnthropicStep == FetchStep(BackendAnthropic, "backends", "anthropic")

FetchOpenAIStep == FetchStep(BackendOpenAI, "anthropic", "openai")

\* the rest of NewModelRegistryWithDynamicFetching and of NewProxyServerV2:
\* the server serves the catalog, or start-up is aborted
PopulateStep ==
    /\ boot.pc = "openai"
    /\ LET r == NewModelRegistryWithDynamicFetching(boot.allModels, backends)
       IN  /\ models' = r.models
           /\ boot' = [boot EXCEPT
                          !.pc = IF r.err # <<>> THEN "fatal" ELSE "serving",
                          !.err = r.err]
    /\ UNCHANGED <<backends, req, resp, calls, result, tok, flt, admin, config, threads>>

\* an adapter registered on the manager of the running server
RegisterBackendServing == boot.pc = "serving" /\ RegisterBackend

InitStartup ==
    /\ models = <<>>
    /\ backends = <<>>
    /\ req = NoReq
    /\ resp = NoResp
    /\ calls = <<>>
    /\ result = NoResult
    /\ tok = NoTok
    /\ flt = NoFlt
    /\ admin = NoAdmin
    /\ boot \in Boots
    /\ config = LoadConfig(Unset)
    /\ threads = NoThreads

NextStartup ==
    \/ CreateBackendsStep
    \/ FetchAnthropicStep
    \/ FetchOpenAIStep
    \/ PopulateStep
    \/ RegisterBackendServing

SpecStartup == InitStartup /\ [][NextStartup]_vars

----------------------------------------------------------------------------
\* Properties of start-up

\* the fetches of FetchAllModels are over
Fetched == boot.pc \in {"openai", "serving", "fatal"}

\* the entries a provider contributed, in order
RECURSIVE EntriesOf(_, _)
EntriesOf(ms, backend) ==
    IF ms = <<>> THEN <<>>
    ELSE (IF Head(ms).Backend = backend THEN <<Head(ms)>> ELSE <<>>)
         \o EntriesOf(Tail(ms), backend)

\* the ids of a listing that pass the provider's filter rule, in order
Passing(backend) ==
    LET Test(id) == matchesFilters(id, boot.cfg.ModelFilters[backend])
    IN  SelectSeq(boot.upstream[backend].ids, Test)

C13_FetchFailureIsolated ==
    Fetched
    => /\ \A p \in Providers :
              LET enabled == boot.cfg.ModelFilters[p].Enabled
                             /\ KeyOf(boot.cfg, p)
                  entries == EntriesOf(boot.allModels, p)
              IN  /\ p \in boot.fetched <=> enabled
                  /\ (~enabled \/ ~boot.upstream[p].ok) => entries = <<>>
                  /\ (enabled /\ boot.upstream[p].ok)
                     => /\ Len(entries) = Len(Passing(p))
                        /\ \A i \in 1..Len(entries) :
                              entries[i].BackendModel = Passing(p)[i]
       /\ boot.pc = "fatal" <=> (boot.pc # "openai" /\ boot.allModels = <<>>)

C13_Witness ==
    /\ boot.pc = "serving"
    /\ BackendAnthropic \in boot.fetched
    /\ ~boot.upstream[BackendAnthropic].ok
    /\ BackendOpenAI \in boot.fetched
    /\ Len(boot.allModels) = 2
    /\ boot.allModels[1].Backend = BackendOpenAI

\* C16: CreateBackends registers an adapter for a provider exactly when its
\* key is not empty, so after construction every registered adapter is
\* available and GetAvailableBackends is the set of registered providers
\* (none with both keys empty); in general GetAvailableBackends is the set of
\* registered providers whose adapter is available.
C16_BackendsCreated ==
    /\ boot.pc \in {"backends", "anthropic", "openai"}
       => /\ \A p \in Providers :
                 p \in DOMAIN backends
                 <=> (IF p = "anthropic" THEN boot.cfg.AnthropicAPIKey
                      ELSE boot.cfg.OpenAIAPIKey)
          /\ \A p \in DOMAIN backends : backends[p].hasKey
          /\ GetAvailableBackends(backends) = DOMAIN backends
    /\ boot.pc # "config"
       => \A p \in Providers :
              p \in GetAvailableBackends(backends)
              <=> (p \in DOMAIN backends /\ backends[p].hasKey)

C16_Witness ==
    /\ boot.pc = "backends"
    /\ boot.cfg.AnthropicAPIKey
    /\ ~boot.cfg.OpenAIAPIKey
    /\ DOMAIN backends = {"anthropic"}
    /\ GetAvailableBackends(backends) = {"anthropic"}

\* C19: generateModelName turns an Anthropic id claude-<major>-<minor>-<tier>-
\* <date> into claude-<major>.<minor>-<tier> (claude-3-5-sonnet-20241022 into
\* claude-3.5-sonnet) and leaves every OpenAI id as it is.
C19_ModelNames ==
    \A i \in 1..Len(boot.allModels) :
        LET e == boot.allModels[i]
            parts == Split(e.BackendModel, "-")
        IN  /\ e.Backend = "openai" => e.Name = e.BackendModel
            /\ (e.Backend = "anthropic" /\ Len(parts) = 5)
               => e.Name = parts[1] \o <<"-">> \o parts[2] \o <<".">>
                           \o parts[3] \o <<"-">> \o parts[4]
            /\ e.BackendModel = Id_claude35sonnet
               => e.Name = <<"c", "l", "a", "u", "d", "e", "-", "3", ".", "5",
                             "-", "s", "o", "n", "n", "e", "t">>

----------------------------------------------------------------------------
\* The catalog: mutations and listings of the ModelRegistry.  admin keeps the
\* last mutation with the catalog before it, and the last listing made since.

\* r.models[model.Name] = model
AddModel(ms, model) ==
    [n \in DOMAIN ms \cup {model.Name} |->
        IF n = model.Name THEN model ELSE ms[n]]

\* delete(r.models, name)
RemoveModel(ms, name) == [n \in DOMAIN ms \ {name} |-> ms[n]]

EnableModel_Upsert(ms, name) ==
    AddModel(ms, IF name \in DOMAIN ms THEN [ms[name] EXCEPT !.Enabled = TRUE]
                 ELSE [NoConfig EXCEPT !.Enabled = TRUE])

\* ModelRegistry.EnableModel
EnableModel(ms, name) ==
    IF name \in DOMAIN ms THEN [ms EXCEPT ![name].Enabled = TRUE] ELSE ms

\* ModelRegistry.DisableModel
DisableModel(ms, name) ==
    IF name \in DOMAIN ms THEN [ms EXCEPT ![name].Enabled = FALSE] ELSE ms

\* ModelRegistry.GetModel: the entry and whether it exists
GetModel(ms, name) ==
    IF name \in DOMAIN ms THEN [exists |-> TRUE, out |-> {ms[name]}]
    ELSE [exists |-> FALSE, out |-> {}]

GetAllModels_IncludingDisabled(ms) == {ms[n] : n \in DOMAIN ms}

\* ModelRegistry.GetAllModels: the entries appended, in map order
GetAllModels(ms) == {ms[n] : n \in {k \in DOMAIN ms : ms[k].Enabled}}

\* ModelRegistry.GetModelsByBackend
GetModelsByBackend(ms, backend) ==
    {ms[n] : n \in {k \in DOMAIN ms :
                       ms[k].Backend = backend /\ ms[k].Enabled}}

\* the entries a test adds
AddedModels ==
    {[Name |-> n, Backend |-> b, BackendModel |-> "test-model-backend",
      MaxTokens |-> 4096, Enabled |-> e] :
        n \in {"test-model", "gpt-4o"}, b \in Providers, e \in BOOLEAN}

CatalogNames == DOMAIN DefaultModels \cup {"test-model", "non-existent-model"}

Mutate(op, name, entry, after) ==
    /\ models' = after
    /\ admin' = [op |-> op, name |-> name, entry |-> entry, before |-> models,
                 read |-> NoRead]
    /\ UNCHANGED <<backends, req, resp, calls, result, tok, flt, boot, config, threads>>

Read(op, arg, r) ==
    /\ admin' = [admin EXCEPT !.read = [op |-> op, arg |-> arg,
                                        exists |-> r.exists, out |-> r.out]]
    /\ UNCHANGED <<serverVars, tok, flt, boot, config, threads>>

CallAddModel ==
    \E model \in AddedModels :
        Mutate("AddModel", model.Name, model, AddModel(models, model))

CallRemoveModel ==
    \E n \in CatalogNames : 
        Mutate("RemoveModel", n, NoConfig, RemoveModel(models, n))

CallEnableModel ==
    \E n \in CatalogNames : 
        Mutate("EnableModel", n, NoConfig, EnableModel(models, n))

CallDisableModel ==
    \E n \in CatalogNames : 
        Mutate("DisableModel", n, NoConfig, DisableModel(models, n))

CallGetModel ==
    \E n \in CatalogNames : Read("GetModel", n, GetModel(models, n))

CallGetAllModels ==
    Read("GetAllModels", "", [exists |-> TRUE, out |-> GetAllModels(models)])

CallGetModelsByBackend ==
    \E p \in Providers :
        Read("GetModelsByBackend", p,
             [exists |-> TRUE, out |-> GetModelsByBackend(models, p)])

InitCatalog ==
    /\ models \in {DefaultModels, <<>>}
    /\ backends = <<>>
    /\ req = NoReq
    /\ resp = NoResp
    /\ calls = <<>>
    /\ result = NoResult
    /\ tok = NoTok
    /\ flt = NoFlt
    /\ admin = [NoAdmin EXCEPT !.before = models]
    /\ boot = NoBoot
    /\ config = LoadConfig(Unset)
    /\ threads = NoThreads

NextCatalog ==
    \/ CallAddModel
    \/ CallRemoveModel
    \/ CallEnableModel
    \/ CallDisableModel
    \/ CallGetModel
    \/ CallGetAllModels
    \/ CallGetModelsByBackend

SpecCatalog == InitCatalog /\ [][NextCatalog]_vars

----------------------------------------------------------------------------
\* Properties of the catalog

\* every entry but that of name n is as it was before the last mutation
OthersUnchanged(n) ==
    \A k \in (DOMAIN models \cup DOMAIN admin.before) \ {n} :
        /\ k \in DOMAIN models
        /\ k \in DOMAIN admin.before
        /\ models[k] = admin.before[k]

\* C14: a catalog mutation touches only the named entry: AddModel(e) makes
\* the entry of e.Name equal to e and changes no other; RemoveModel,
\* EnableModel and DisableModel of an absent name change nothing; EnableModel
\* and DisableModel of a present name change only that entry's enabled flag.
C14_MutationFrame ==
    /\ admin.op = "AddModel"
       => /\ admin.name \in DOMAIN models
          /\ models[admin.name] = admin.entry
          /\ OthersUnchanged(admin.name)
    /\ (admin.op \in {"RemoveModel", "EnableModel", "DisableModel"}
           /\ admin.name \notin DOMAIN admin.before)
       => models = admin.before
    /\ (admin.op \in {"EnableModel", "DisableModel"}
           /\ admin.name \in DOMAIN admin.before)
       => /\ admin.name \in DOMAIN models
          /\ models[admin.name].Enabled = (admin.op = "EnableModel")
          /\ \A f \in {"Name", "Backend", "BackendModel", "MaxTokens"} :
                models[admin.name][f] = admin.before[admin.name][f]
          /\ OthersUnchanged(admin.name)

C14_Witness ==
    /\ admin.op = "AddModel"
    /\ admin.name = "gpt-4o"
    /\ "gpt-4o" \in DOMAIN admin.before
    /\ admin.before["gpt-4o"] # admin.entry
    /\ models["gpt-4o"] = admin.entry
    /\ "gpt-4" \in DOMAIN models

\* C15: whatever mutations were made, GetAllModels returns exactly the
\* enabled entries, GetModelsByBackend(p) exactly the enabled entries of
\* provider p, and GetModel(n) the entry of n enabled or not: after
\* DisableModel(n) the entry is there, not enabled, and in neither listing.
C15_Listings ==
    /\ admin.read.op = "GetAllModels"
       => \A n \in CatalogNames \cup DOMAIN models :
              (n \in DOMAIN models /\ models[n].Enabled)
              <=> (\E e \in admin.read.out : e.Name = n /\ e = models[n])
    /\ admin.read.op = "GetModelsByBackend"
       => \A n \in CatalogNames \cup DOMAIN models :
              (n \in DOMAIN models /\ models[n].Enabled
                  /\ models[n].Backend = admin.read.arg)
              <=> (\E e \in admin.read.out : e.Name = n /\ e = models[n])
    /\ admin.read.op = "GetModel"
       => /\ admin.read.exists <=> admin.read.arg \in DOMAIN models
          /\ admin.read.exists => admin.read.out = {models[admin.read.arg]}
    /\ (admin.op = "DisableModel" /\ admin.name \in DOMAIN admin.before)
       => /\ admin.read.op = "GetModel" /\ admin.read.arg = admin.name
             => /\ admin.read.exists
                /\ \A e \in admin.read.out : ~e.Enabled
          /\ admin.read.op \in {"GetAllModels", "GetModelsByBackend"}
             => \A e \in admin.read.out : e.Name # admin.name

C15_Witness ==
    /\ admin.op = "DisableModel"
    /\ admin.name = "gpt-4"
    /\ "gpt-4" \in DOMAIN admin.before
    /\ admin.before["gpt-4"].Enabled
    /\ admin.read.op = "GetModelsByBackend"
    /\ admin.read.arg = "openai"
    /\ \E e \in admin.read.out : e.Name = "gpt-4o"
    /\ \A e \in admin.read.out : e.Name # "gpt-4"

----------------------------------------------------------------------------
\* More properties of the server

\* a JSON body {"error": message} under the status code
ErrorAnswer(code) ==
    /\ resp.status = code
    /\ resp.ctype = JsonType
    /\ resp.body.kind = "error"
    /\ resp.body.error # <<>>
    /\ resp.lines = <<>>

\* C17: the generate endpoint answers every request with stream = true with
\* 400 and a JSON error body, before it resolves the model and without a call
\* of an adapter or of the streaming emitter.
C17_GenerateStreamRejected ==
    (req.endpoint = "/api/generate" /\ req.stream)
    => /\ ErrorAnswer(400)
       /\ resp.body.error = <<"streaming not supported for generate endpoint">>
       /\ calls = <<>>
       /\ ~result.reached

C17_Witness ==
    /\ req.endpoint = "/api/generate"
    /\ req.stream
    /\ req.model = "non-existent-model"
    /\ resp.status = 400
    /\ resp.body.kind = "error"

\* a request on the non-streaming chat or generate path
NonStreamingPath ==
    \/ req.endpoint = "/api/generate"
    \/ req.endpoint = "/api/chat" /\ (req.malformed \/ ~req.stream)

\* C18: on the non-streaming chat and generate paths every failure ends in a
\* JSON body {"error": message}: 400 for malformed JSON, an unknown or empty
\* model name and a chat request that fails token validation, 500 for a
\* failed dispatch or an adapter result of another type.
C18_NonStreamingErrors ==
    NonStreamingPath
    => /\ req.malformed => ErrorAnswer(400)
       /\ (~req.malformed /\ ~KnownModel) => ErrorAnswer(400)
       /\ (NonStreamingChat /\ KnownModel
              /\ ~ValidateTokenLimits(models[req.model], req.messages).ok)
          => ErrorAnswer(400)
       /\ (result.reached /\ ~Succeeded) => ErrorAnswer(500)
       /\ (result.reached /\ Succeeded
              /\ result.value.shape
                     # (IF req.endpoint = "/api/chat" THEN "ChatResponse"
                        ELSE "GenerateResponse"))
          => ErrorAnswer(500)

\* C20: when a chat or generate request succeeds, the generic request handed
\* to the adapter carries the entry's provider model id, and the response,
\* the JSON body or every ndjson line, carries the name the client sent.
C20_ModelNames ==
    (req.endpoint \in {"/api/chat", "/api/generate", "HandleStreamingGenerate"}
        /\ Succeeded)
    => /\ KnownModel
       /\ result.request.Model = models[req.model].BackendModel
       /\ Len(calls) = 1
       /\ calls[1].call.Model = models[req.model].BackendModel
       /\ resp.status = 200
       /\ resp.body # NoBody => resp.body.model = req.model
       /\ \A i \in 1..Len(resp.lines) : resp.lines[i].model = req.model
       /\ resp.body # NoBody \/ Len(resp.lines) > 0 \/ ResultText = <<>>

C20_Witness ==
    /\ StreamingChat
    /\ Succeeded
    /\ req.model = "claude-4.5-sonnet"
    /\ calls[1].call.Model = "claude-3-5-sonnet-20241022"
    /\ Len(resp.lines) = 2
    /\ resp.lines[2].model = "claude-4.5-sonnet"

\* C21: every successful non-streaming chat response has message.role =
\* "assistant", done = true and context = [], whatever role the adapter's
\* result carries.
C21_ChatResponseShape ==
    (NonStreamingChat /\ Succeeded)
    => /\ resp.status = 200
       /\ resp.body.kind = "chat"
       /\ resp.body.role = "assistant"
       /\ resp.body.done
       /\ resp.body.context = <<>>

\* C22: a chat or generate request, streaming or not, causes at most one
\* adapter call; after an upstream failure no second call is made and the
\* failure becomes the request's error response.
C22_SingleAttempt ==
    /\ Len(calls) <= 1
    /\ (calls # <<>> /\ calls[1].reply.kind = "error")
       => /\ result.err = UpstreamErr(calls[1].call.adapter)
          /\ (StreamingChat \/ StreamingGenerate) => OneErrorLine
          /\ (NonStreamingChat \/ req.endpoint = "/api/generate")
             => /\ ErrorAnswer(500)
                /\ resp.body.error = result.err

C22_Witness ==
    /\ StreamingChat
    /\ Len(calls) = 1
    /\ calls[1].reply = UpstreamError
    /\ calls[1].call.method = "Chat"
    /\ OneErrorLine

----------------------------------------------------------------------------
\* The server under a configuration read from the environment

\* values of STREAMING_CHUNK_SIZE: not set, integers, and not an integer
ChunkSizeValues == {Unset, <<"1">>, <<"2">>, <<"5">>, <<"1", "0">>, <<"x">>}

InitConfigured ==
    /\ models = DefaultModels
    /\ backends \in {CreateBackends(a, o) : a, o \in BOOLEAN}
    /\ req = NoReq
    /\ resp = NoResp
    /\ calls = <<>>
    /\ result = NoResult
    /\ tok = NoTok
    /\ flt = NoFlt
    /\ admin = NoAdmin
    /\ boot = NoBoot
    /\ config \in {LoadConfig(v) : v \in ChunkSizeValues}
    /\ threads = NoThreads

NextConfigured ==
    \/ ServeChat
    \/ ServeStreamingGenerate

SpecConfigured == InitConfigured /\ [][NextConfigured]_vars

\* C23: the emitter's slice size is the configured streaming chunk size: under
\* a configuration whose chunk size is k, a response text of n >= 1 units is
\* emitted as ceil(n/k) lines of k units, the last one of the rest.
C23_ConfiguredChunkSize ==
    ((StreamingChat \/ StreamingGenerate) /\ KnownModel /\ Succeeded
         /\ Len(ResultText) >= 1 /\ ~ContainsSub(ResultText, ErrorMarker))
    => LET n == Len(ResultText)
           k == config.StreamingChunkSize
       IN  /\ Len(resp.lines) = CeilDiv(n, k)
           /\ \A i \in 1..Len(resp.lines) :
                 resp.lines[i].content
                     = JSONString(SubSeq(ResultText, k * (i - 1) + 1,
                                         Min(k * i, n)))

\* C24: every streaming chat or generate request ends with the lines of its
\* exchange written, exactly one of them with done = true, and that one the
\* last, for every response text of the backend, the empty text included.
C24_DoneLine ==
    (StreamingChat \/ StreamingGenerate)
    => /\ Len(resp.lines) >= 1
       /\ \A i \in 1..Len(resp.lines) :
             resp.lines[i].done <=> (i = Len(resp.lines))

----------------------------------------------------------------------------
\* More properties of the token budgeter

\* the request of the call passes ValidateTokenLimits on the call's model
PassesValidation ==
    ValidateTokenLimits(ModelOfWindow(tok.ctx), tok.messages).ok

\* C25 as stated: for every chat request that passes ValidateTokenLimits on a
\* model with contextWindow > 0, the estimate of the input plus
\* CalculateMaxTokensForRequest is at most the context window.
C25_Original ==
    (tok.op = "CalculateMaxTokensForRequest" /\ tok.done /\ tok.ctx > 0
        /\ PassesValidation)
    => EstimateChatTokens(tok.messages) + tok.result <= tok.ctx

\* C25, amended: the budget is safe for every context window of at least 397
\* tokens: for a chat request that passes ValidateTokenLimits on such a
\* model, the estimate plus the budget is at most the window.  Below 397 the
\* floor of 100 wins and the sum can exceed the window.
C25_BudgetSafe ==
    (tok.op = "CalculateMaxTokensForRequest" /\ tok.done /\ tok.ctx >= 397
        /\ PassesValidation)
    => EstimateChatTokens(tok.messages) + tok.result <= tok.ctx

\* C25 witness: window 397 and an estimate of 297, the largest that passes:
\* the floor of 100 is used and the sum is the window
C25_Witness ==
    /\ tok.op = "CalculateMaxTokensForRequest" /\ tok.done
    /\ tok.ctx = 397
    /\ EstimateChatTokens(tok.messages) = 297
    /\ PassesValidation
    /\ tok.result = 100

----------------------------------------------------------------------------
\* The server while models are disabled and enabled

\* ProxyServerV2.HandleTags
HandleTags(ms) ==
    NotDispatched(WriteJSON("", 200,
        [kind |-> "tags",
         models |-> {ToOllamaModel(m) : m \in GetAllModels(ms)}]))

ServeTags ==
    Serve([NoReq EXCEPT !.endpoint = "/api/tags"], HandleTags(models),
          UpstreamError)

\* the entries disabled and enabled: one of each backend
ToggledNames == {"gpt-4", "claude-4.5-sonnet"}

\* EnableModel or DisableModel on the running server; the exchange kept is
\* one with the catalog as it is now
SetEnabled(op, name, after) ==
    /\ models' = after
    /\ admin' = [op |-> op, name |-> name, entry |-> NoConfig,
                 before |-> models, read |-> NoRead]
    /\ req' = NoReq
    /\ resp' = NoResp
    /\ calls' = <<>>
    /\ result' = NoResult
    /\ UNCHANGED <<backends, tok, flt, boot, config, threads>>

DisableModelServing ==
    \E n \in ToggledNames :
        SetEnabled("DisableModel", n, DisableModel(models, n))

EnableModelServing ==
    \E n \in ToggledNames :
        SetEnabled("EnableModel", n, EnableModel(models, n))

InitManaged ==
    /\ models = DefaultModels
    /\ backends = CreateBackends(TRUE, TRUE)
    /\ req = NoReq
    /\ resp = NoResp
    /\ calls = <<>>
    /\ result = NoResult
    /\ tok = NoTok
    /\ flt = NoFlt
    /\ admin = NoAdmin
    /\ boot = NoBoot
    /\ config = LoadConfig(Unset)
    /\ threads = NoThreads

NextManaged ==
    \/ ServeChat
    \/ ServeGenerate
    \/ ServeShow
    \/ ServeTags
    \/ DisableModelServing
    \/ EnableModelServing

SpecManaged == InitManaged /\ [][NextManaged]_vars

\* the handler of the request of the exchange, run on the catalog ms
HandlerOn(ms, reply) ==
    CASE req.endpoint = "/api/chat" -> HandleChat(ms, backends, req, reply)
      [] req.endpoint = "/api/generate" ->
             HandleGenerate(ms, backends, req, reply)
      [] OTHER -> HandleShow(ms, req)

\* the names GET /api/tags lists
ListedNames == {m.Name : m \in GetAllModels(models)}

\* C26: disabling a model only hides it from the listing: a chat, generate
\* or show request naming an entry whose enabled flag is false is resolved and
\* dispatched exactly as if the entry were enabled; chat and generate reject
\* a name as not found exactly when it is no key of the catalog, while
\* /api/tags lists the enabled entries only.
C26_DisabledStillServed ==
    /\ (req.endpoint \in {"/api/chat", "/api/generate", "/api/show",
                          "/api/show/:model"}
           /\ KnownModel /\ ~models[req.model].Enabled)
       => LET reply == IF calls = <<>> THEN UpstreamError ELSE calls[1].reply
              h == HandlerOn([models EXCEPT ![req.model].Enabled = TRUE],
                             reply)
          IN  /\ resp = h.resp
              /\ result = h.result
              /\ calls = Exchange(h, reply)
    /\ (NonStreamingChat \/ (req.endpoint = "/api/generate"
                                /\ ~req.malformed /\ ~req.stream))
       => ((resp.status = 400 /\ resp.body.kind = "error"
               /\ resp.body.error = <<"model not found">>)
           <=> ~KnownModel)
    /\ StreamingChat => (~result.reached /\ OneErrorLine
                            /\ ContainsSub(resp.lines[1].content,
                                           <<"model not found">>)
                         <=> ~KnownModel)
    /\ req.endpoint = "/api/tags"
       => /\ resp.status = 200
          /\ {m.name : m \in resp.body.models} = ListedNames
          /\ \A n \in DOMAIN models : n \in ListedNames <=> models[n].Enabled

\* C26 witness: a chat request for the disabled gpt-4, which the listing
\* does not hold, dispatched to the OpenAI adapter and answered 200
C26_Witness ==
    /\ NonStreamingChat
    /\ req.model = "gpt-4"
    /\ ~models["gpt-4"].Enabled
    /\ "gpt-4" \notin ListedNames
    /\ Succeeded
    /\ calls[1].call.adapter = BackendOpenAI
    /\ resp.status = 200

\* C27: when an upstream call succeeds but the reply holds an empty list of
\* content blocks or of choices, Generate and Chat return an error value, the
\* request ends with an error response, and no request handler panics on an
\* upstream reply.
C27_EmptyReplyIsError ==
    /\ ~result.panic
    /\ ~resp.panic
    /\ (calls # <<>> /\ calls[1].reply = UpstreamEmpty)
       => /\ result.err # <<>>
          /\ (StreamingChat \/ StreamingGenerate) => OneErrorLine
          /\ (NonStreamingChat \/ req.endpoint = "/api/generate")
             => ErrorAnswer(500)

\* the chat request of the exchange on the other path: streaming for a
\* non-streaming request and the reverse, with the same catalog, adapters
\* and upstream reply
OtherPath ==
    HandleChat(models, backends, [req EXCEPT !.stream = ~req.stream],
               IF calls = <<>> THEN UpstreamError ELSE calls[1].reply)

\* C28: for the same chat request, catalog and adapter behaviour the
\* streaming and the non-streaming path agree: both reject or both dispatch,
\* both hand the adapter the same generic request, and on success the
\* contents of the streamed lines in order make up the content of the
\* non-streaming response, every line carrying its model and created_at.
C28_PathsAgree ==
    StreamingChat
    => LET other == OtherPath
       IN  /\ result.reached <=> other.result.reached
           /\ result.reached => result.request = other.result.request
           /\ Len(calls) = Len(other.calls)
           /\ \A i \in 1..Len(calls) : calls[i].call = other.calls[i]
           /\ Succeeded
              => /\ other.resp.status = 200
                 /\ other.resp.body.kind = "chat"
                 /\ ConcatContent(resp.lines) = other.resp.body.content
                 /\ \A i \in 1..Len(resp.lines) :
                       /\ resp.lines[i].model = other.resp.body.model
                       /\ resp.lines[i].created_at
                              = other.resp.body.created_at

----------------------------------------------------------------------------
\* More properties of start-up

\* the fetched entries whose backend was available when the catalog was
\* populated: those of the providers with a key, in order
Accepted ==
    LET Available(m) == KeyOf(boot.cfg, m.Backend)
    IN  SelectSeq(boot.allModels, Available)

\* C29: during dynamic population two distinct provider model ids that pass
\* the filters never yield the same public name, so every accepted id has
\* its own catalog entry, none is overwritten, and the catalog holds as many
\* entries as ids were accepted for available backends.
C29_UniqueNames ==
    boot.pc \in {"serving", "fatal"}
    => /\ \A i, j \in 1..Len(boot.allModels) :
              boot.allModels[i].BackendModel # boot.allModels[j].BackendModel
              => boot.allModels[i].Name # boot.allModels[j].Name
       /\ Cardinality(DOMAIN models) = Len(Accepted)
       /\ \A i \in 1..Len(Accepted) :
              /\ Accepted[i].Name \in DOMAIN models
              /\ models[Accepted[i].Name] = Accepted[i]

----------------------------------------------------------------------------
\* Two goroutines on one name of the catalog: one runs EnableModel or
\* DisableModel, the other AddModel or RemoveModel.  The registry holds no
\* lock, so the steps of EnableModel and DisableModel, the read of the entry
\* and the write of the copy, interleave with the map write of the other
\* goroutine; map accesses that overlap are a data race, which the runtime
\* may end with a fatal error.

RaceName == "gpt-4"

\* the catalog at the start: the name enabled, disabled, and absent
RaceCatalogs ==
    {DefaultModels, DisableModel(DefaultModels, RaceName),
     RemoveModel(DefaultModels, RaceName)}

\* the entries AddModel stores under the name
RaceEntries ==
    {[DefaultModels[RaceName] EXCEPT !.BackendModel = "gpt-4-turbo",
                                     !.Enabled = e] : e \in BOOLEAN}

Togglers ==
    {[op |-> o, pc |-> "read", exists |-> FALSE, model |-> NoConfig,
      mutatedAtRead |-> FALSE, mutatedAtWrite |-> FALSE] :
        o \in {"EnableModel", "DisableModel"}}

Mutators ==
    {[op |-> "AddModel", pc |-> "write", entry |-> e] : e \in RaceEntries}
    \cup {[op |-> "RemoveModel", pc |-> "write", entry |-> NoConfig]}

Flagged_Unchanged(op, model) == model

\* model.Enabled = true / model.Enabled = false, on the copy
Flagged(op, model) == [model EXCEPT !.Enabled = (op = "EnableModel")]

\* r.models[name] = model
WriteBack(ms, name, model) ==
    [n \in DOMAIN ms \cup {name} |-> IF n = name THEN model ELSE ms[n]]

\* model, exists := r.models[name]
ToggleRead ==
    /\ threads.toggle.pc = "read"
    /\ LET g == GetModel(models, RaceName)
       IN  threads' =
               [threads EXCEPT
                   !.toggle.pc = IF g.exists THEN "write" ELSE "done",
                   !.toggle.exists = g.exists,
                   !.toggle.model =
                       IF g.exists
                       THEN Flagged(threads.toggle.op, models[RaceName])
                       ELSE NoConfig,
                   !.toggle.mutatedAtRead = (threads.mutate.pc = "done")]
    /\ UNCHANGED <<serverVars, tok, flt, admin, boot, config>>

\* r.models[name] = model, inside if exists
ToggleWrite ==
    /\ threads.toggle.pc = "write"
    /\ models' = WriteBack(models, RaceName, threads.toggle.model)
    /\ threads' = [threads EXCEPT
                      !.toggle.pc = "done",
                      !.toggle.mutatedAtWrite = (threads.mutate.pc = "done")]
    /\ UNCHANGED <<backends, req, resp, calls, result, tok, flt, admin, boot,
                   config>>

\* the map write of AddModel or RemoveModel
MutateWrite ==
    /\ threads.mutate.pc = "write"
    /\ models' = IF threads.mutate.op = "AddModel"
                 THEN AddModel(models, threads.mutate.entry)
                 ELSE RemoveModel(models, RaceName)
    /\ threads' = [threads EXCEPT !.mutate.pc = "done"]
    /\ UNCHANGED <<backends, req, resp, calls, result, tok, flt, admin, boot,
                   config>>

\* a map access of one goroutine overlaps the map write of the other: the
\* runtime may detect it and abort the process
ConcurrentMapAccess ==
    /\ threads.toggle.pc \in {"read", "write"}
    /\ threads.mutate.pc = "write"
    /\ threads' = [threads EXCEPT !.toggle.pc = "fatal", !.mutate.pc = "fatal"]
    /\ UNCHANGED <<serverVars, tok, flt, admin, boot, config>>

InitRace ==
    /\ models \in RaceCatalogs
    /\ backends = <<>>
    /\ req = NoReq
    /\ resp = NoResp
    /\ calls = <<>>
    /\ result = NoResult
    /\ tok = NoTok
    /\ flt = NoFlt
    /\ admin = [NoAdmin EXCEPT !.before = models]
    /\ boot = NoBoot
    /\ config = LoadConfig(Unset)
    /\ threads \in [toggle : Togglers, mutate : Mutators]

NextRace ==
    \/ ToggleRead
    \/ ToggleWrite
    \/ MutateWrite
    \/ ConcurrentMapAccess

SpecRace == InitRace /\ [][NextRace]_vars

\* both operations returned
BothDone == threads.toggle.pc = "done" /\ threads.mutate.pc = "done"

\* the operation of a goroutine, run alone on the catalog ms
ToggleOf(ms) ==
    IF threads.toggle.op = "EnableModel" THEN EnableModel(ms, RaceName)
    ELSE DisableModel(ms, RaceName)

MutateOf(ms) ==
    IF threads.mutate.op = "AddModel" THEN AddModel(ms, threads.mutate.entry)
    ELSE RemoveModel(ms, RaceName)

\* the catalogs the two sequential orders end with
SequentialResults == {MutateOf(ToggleOf(admin.before)),
                      ToggleOf(MutateOf(admin.before))}

\* the other goroutine wrote the map between the read and the write-back
WroteBetween ==
    /\ threads.toggle.exists
    /\ ~threads.toggle.mutatedAtRead
    /\ threads.toggle.mutatedAtWrite

\* C30 as stated: in every interleaving of EnableModel(n) or DisableModel(n)
\* with a concurrent AddModel(e) or RemoveModel(n) on the same name the final
\* catalog is the result of one of the two sequential orders.
C30_Original ==
    /\ threads.toggle.pc # "fatal"
    /\ BothDone => models \in SequentialResults

\* C30, amended: when both operations return, the final catalog is the
\* result of one of the two sequential orders unless AddModel or RemoveModel
\* wrote the map between the read and the write-back of EnableModel or
\* DisableModel; in that case the stale copy is written back: the name holds
\* the entry read at the start with the flag set, over the entry added or in
\* place of the entry removed, and the other entries are as at the start.
C30_StaleWriteBack ==
    BothDone
    => IF WroteBetween
       THEN models = WriteBack(admin.before, RaceName,
                               [admin.before[RaceName] EXCEPT
                                   !.Enabled =
                                       (threads.toggle.op = "EnableModel")])
       ELSE models \in SequentialResults

\* C30 witness: RemoveModel ran between the read and the write-back of
\* EnableModel, and the removed entry is back in the catalog
C30_Witness ==
    /\ BothDone
    /\ WroteBetween
    /\ threads.toggle.op = "EnableModel"
    /\ threads.mutate.op = "RemoveModel"
    /\ RaceName \in DOMAIN models
    /\ models \notin SequentialResults

====
